---- MODULE Spec2Model ----
(***************************************************************************)
(* A model of the gtc graph toolkit: the node interner, the edge-list      *)
(* storage, the directed / undirected wrappers with their graph kinds and  *)
(* the algorithm engines that run over them.                               *)
(*                                                                         *)
(* NodeId and EdgeId are zero-based as in the source; TLA+ sequences are   *)
(* one-based, so the record of id i is element i + 1 of its vector.        *)
(* Option<T> is a sequence of length at most one: None is <<>>, Some(x)    *)
(* is <<x>>.                                                               *)
(***************************************************************************)
EXTENDS Integers, Sequences, FiniteSets, TLC

VARIABLES
    interner,   \* NodeInterner under test: [records, index]
    call,       \* the arguments of the last call made
    ret,        \* what the last call returned
    accepted,   \* how many checked insertions have returned Ok
    storage,    \* the storage wrapped by the graph: [nodes, edges]
    kind,       \* the wrapper's graph kind tag: "Simple" | "Pseudo" | "Multi"
    directed,   \* TRUE: DirectedGraph wrapper, FALSE: UndirectedGraph wrapper
    pc,         \* position of the running computation
    alg         \* the local variables of the running algorithm

varsI == <<interner>>
varsG == <<storage, kind, directed>>
varsCall == <<call, ret, accepted>>
vars == <<interner, call, ret, accepted, storage, kind, directed, pc, alg>>

-----------------------------------------------------------------------------
(* Option<T> *)

None == <<>>
Some(x) == <<x>>
IsSome(o) == o # <<>>
Unwrap(o) == o[1]

(* the elements of a sequence *)
Range(s) == {s[i] : i \in 1..Len(s)}

-----------------------------------------------------------------------------
(* Bounds of the model *)

MaxKeys == 3            \* distinct node keys offered to the interner
MaxWrapNodes == 2       \* node keys offered to the wrappers
MaxWrapRecords == 3     \* edge records a directed wrapper's storage may hold
MaxWrapEdges == 2       \* undirected edges an undirected wrapper may hold

Payloads == {"p", "q"}  \* node payloads
\* the (meta, weight) pairs offered to the wrappers
EdgeLabels == {<<"m", None>>, <<"n", Some(1)>>}

-----------------------------------------------------------------------------
(* NodeInterner (interner.rs) *)

NewInterner == [records |-> <<>>, index |-> <<>>]

\* get_id: the id the index holds for a key
GetId(it, key) == IF key \in DOMAIN it.index THEN Some(it.index[key]) ELSE None

\* a faulty intern that overwrites the payload of a key already present
InternOverwrite(it, key, data) ==
    IF key \in DOMAIN it.index
    THEN [it EXCEPT !.records[it.index[key] + 1] = [key |-> key, data |-> data]]
    ELSE [records |-> Append(it.records, [key |-> key, data |-> data]),
          index |-> it.index @@ (key :> Len(it.records))]

\* intern: the interner after intern(key, data)
Intern(it, key, data) ==
    IF key \in DOMAIN it.index
    THEN it
    ELSE [records |-> Append(it.records, [key |-> key, data |-> data]),
          index |-> it.index @@ (key :> Len(it.records))]

\* intern: the NodeId intern(key, data) returns
InternId(it, key) ==
    IF key \in DOMAIN it.index THEN it.index[key] ELSE Len(it.records)

InternerLen(it) == Len(it.records)

-----------------------------------------------------------------------------
(* GraphDefinition: the canonical edge-list storage (graph_definition.rs) *)

EdgeRecord(from, to, meta, weight) ==
    [from |-> from, to |-> to, meta |-> meta, weight |-> weight]

NewStorage == [nodes |-> NewInterner, edges |-> <<>>]

Order(st) == InternerLen(st.nodes)
Size(st) == Len(st.edges)
NodeIdOf(st, key) == GetId(st.nodes, key)
NodeIds(st) == 0..(Order(st) - 1)
NodeKey(st, id) == st.nodes.records[id + 1].key
EdgeIds(st) == 0..(Size(st) - 1)
Endpoints(st, e) == <<st.edges[e + 1].from, st.edges[e + 1].to>>
EdgeMeta(st, e) == st.edges[e + 1].meta
WeightOf(st, e) == st.edges[e + 1].weight

\* edges_between: the ids of the records from -> to, in insertion order
RECURSIVE EdgesBetweenFrom(_, _, _, _)
EdgesBetweenFrom(edges, i, from, to) ==
    IF i > Len(edges) THEN <<>>
    ELSE (IF edges[i].from = from /\ edges[i].to = to THEN <<i - 1>> ELSE <<>>)
         \o EdgesBetweenFrom(edges, i + 1, from, to)

EdgesBetween(st, from, to) == EdgesBetweenFrom(st.edges, 1, from, to)

\* successors: the heads of the records leaving v, in insertion order
RECURSIVE SuccessorsFrom(_, _, _)
SuccessorsFrom(edges, i, v) ==
    IF i > Len(edges) THEN <<>>
    ELSE (IF edges[i].from = v THEN <<edges[i].to>> ELSE <<>>)
         \o SuccessorsFrom(edges, i + 1, v)

StorageSuccessors(st, v) == SuccessorsFrom(st.edges, 1, v)

\* predecessors: the tails of the records entering v, in insertion order
RECURSIVE PredecessorsFrom(_, _, _)
PredecessorsFrom(edges, i, v) ==
    IF i > Len(edges) THEN <<>>
    ELSE (IF edges[i].to = v THEN <<edges[i].from>> ELSE <<>>)
         \o PredecessorsFrom(edges, i + 1, v)

StoragePredecessors(st, v) == PredecessorsFrom(st.edges, 1, v)

\* neighborhood: for each record, its head if it leaves v, else its tail if
\* it enters v (a self-loop record counts once)
RECURSIVE NeighborhoodFrom(_, _, _)
NeighborhoodFrom(edges, i, v) ==
    IF i > Len(edges) THEN <<>>
    ELSE (IF edges[i].from = v THEN <<edges[i].to>>
          ELSE IF edges[i].to = v THEN <<edges[i].from>>
          ELSE <<>>)
         \o NeighborhoodFrom(edges, i + 1, v)

Neighborhood(st, v) == NeighborhoodFrom(st.edges, 1, v)

\* MutableStorage::add_node
AddNode(st, key, data) == [st EXCEPT !.nodes = Intern(@, key, data)]

\* MutableStorage::add_edge_by_id; the new record's id is the old size
AddEdgeById(st, from, to, meta, weight) ==
    [st EXCEPT !.edges = Append(@, EdgeRecord(from, to, meta, weight))]

\* MutableStorage::clear_edges
ClearEdges(st) == [st EXCEPT !.edges = <<>>]

-----------------------------------------------------------------------------
(* DirectedGraph / UndirectedGraph wrappers (wrappers.rs).  A checked      *)
(* insertion yields the storage after the call and the Result returned.    *)

Kinds == {"Simple", "Pseudo", "Multi"}

Ok1(e) == <<"Ok", e>>
Ok2(e1, e2) == <<"Ok", e1, e2>>
Err(msg) == <<"Err", msg>>
IsOk(r) == r[1] = "Ok"
IsErr(r) == r[1] = "Err"

\* has_edge_between: scan the records for one from -> to
HasEdgeBetween(st, from, to) ==
    \E e \in EdgeIds(st) : Endpoints(st, e) = <<from, to>>

\* a faulty Simple check that forgets the scan for an existing record
SimpleAddArcNoScan(st, from, to, meta, weight) ==
    IF from = to
    THEN [st |-> st, res |-> Err("Simple graph: self-loops are not allowed")]
    ELSE [st |-> AddEdgeById(st, from, to, meta, weight), res |-> Ok1(Size(st))]

\* DirectedGraph<S, Simple>::add_arc_checked
SimpleAddArcChecked(st, from, to, meta, weight) ==
    IF from = to
    THEN [st |-> st, res |-> Err("Simple graph: self-loops are not allowed")]
    ELSE IF HasEdgeBetween(st, from, to)
    THEN [st |-> st, res |-> Err("Simple graph: parallel edges are not allowed")]
    ELSE [st |-> AddEdgeById(st, from, to, meta, weight), res |-> Ok1(Size(st))]

\* DirectedGraph<S, Pseudo>::add_arc_checked
PseudoAddArcChecked(st, from, to, meta, weight) ==
    [st |-> AddEdgeById(st, from, to, meta, weight), res |-> Ok1(Size(st))]

\* DirectedGraph<S, Multi>::add_arc_checked
MultiAddArcChecked(st, from, to, meta, weight) ==
    IF from = to
    THEN [st |-> st, res |-> Err("Multi graph: self-loops are not allowed")]
    ELSE [st |-> AddEdgeById(st, from, to, meta, weight), res |-> Ok1(Size(st))]

\* a faulty undirected insert that stores the reverse record without its weight
InsertBothDropWeight(st, a, b, meta, weight) ==
    [st |-> AddEdgeById(AddEdgeById(st, a, b, meta, weight), b, a, meta, None),
     res |-> Ok2(Size(st), Size(st) + 1)]

\* the two storage inserts of one undirected edge
InsertBoth(st, a, b, meta, weight) ==
    [st |-> AddEdgeById(AddEdgeById(st, a, b, meta, weight), b, a, meta, weight),
     res |-> Ok2(Size(st), Size(st) + 1)]

\* UndirectedGraph<S, Simple>::add_edge_checked
SimpleAddEdgeChecked(st, a, b, meta, weight) ==
    IF a = b
    THEN [st |-> st, res |-> Err("Simple undirected graph: self-loops not allowed")]
    ELSE IF \E e \in EdgeIds(st) :
                \/ Endpoints(st, e) = <<a, b>>
                \/ Endpoints(st, e) = <<b, a>>
    THEN [st |-> st, res |-> Err("Simple undirected graph: parallel edges not allowed")]
    ELSE InsertBoth(st, a, b, meta, weight)

\* UndirectedGraph<S, Pseudo>::add_edge_checked
PseudoAddEdgeChecked(st, a, b, meta, weight) == InsertBoth(st, a, b, meta, weight)

\* UndirectedGraph<S, Multi>::add_edge_checked
MultiAddEdgeChecked(st, a, b, meta, weight) ==
    IF a = b
    THEN [st |-> st, res |-> Err("Multi undirected graph: self-loops not allowed")]
    ELSE InsertBoth(st, a, b, meta, weight)

\* add_arc_checked of the wrapper whose kind tag is k
AddArcChecked(k, st, from, to, meta, weight) ==
    CASE k = "Simple" -> SimpleAddArcChecked(st, from, to, meta, weight)
      [] k = "Pseudo" -> PseudoAddArcChecked(st, from, to, meta, weight)
      [] k = "Multi" -> MultiAddArcChecked(st, from, to, meta, weight)

\* add_edge_checked of the undirected wrapper whose kind tag is k
AddEdgeChecked(k, st, a, b, meta, weight) ==
    CASE k = "Simple" -> SimpleAddEdgeChecked(st, a, b, meta, weight)
      [] k = "Pseudo" -> PseudoAddEdgeChecked(st, a, b, meta, weight)
      [] k = "Multi" -> MultiAddEdgeChecked(st, a, b, meta, weight)

\* add_arc_by_key_checked: both nodes are interned, then the checked insert
AddArcByKeyChecked(k, st, from_key, to_key, from_data, to_data, meta, weight) ==
    LET st1 == AddNode(st, from_key, from_data)
        from == InternId(st.nodes, from_key)
        st2 == AddNode(st1, to_key, to_data)
        to == InternId(st1.nodes, to_key)
    IN  AddArcChecked(k, st2, from, to, meta, weight)

\* add_edge_by_key_checked: both nodes are interned, then the checked insert
AddEdgeByKeyChecked(k, st, a_key, b_key, a_data, b_data, meta, weight) ==
    LET st1 == AddNode(st, a_key, a_data)
        a == InternId(st.nodes, a_key)
        st2 == AddNode(st1, b_key, b_data)
        b == InternId(st1.nodes, b_key)
    IN  AddEdgeChecked(k, st2, a, b, meta, weight)

\* the wrapper's read contract: an undirected wrapper answers successors and
\* predecessors with the storage's neighborhood
Successors(dir, st, v) ==
    IF dir THEN StorageSuccessors(st, v) ELSE Neighborhood(st, v)
Predecessors(dir, st, v) ==
    IF dir THEN StoragePredecessors(st, v) ELSE Neighborhood(st, v)

-----------------------------------------------------------------------------
(* The interner under a sequence of intern calls *)

InitInterner ==
    /\ interner = NewInterner
    /\ call = <<>>
    /\ ret = None
    /\ accepted = 0
    /\ storage = NewStorage
    /\ kind = "Simple"
    /\ directed = TRUE
    /\ pc = "interner"
    /\ alg = <<>>

InternCall(key, data) ==
    /\ pc = "interner"
    /\ call' = <<"intern", key, data>>
    /\ ret' = Some(InternId(interner, key))
    /\ interner' = Intern(interner, key, data)
    /\ UNCHANGED <<accepted, varsG, pc, alg>>

NextInterner == \E key \in 1..MaxKeys, data \in Payloads : InternCall(key, data)

SpecInterner == InitInterner /\ [][NextInterner]_vars

\* the interner's two tables describe one bijection between keys and ids
InternerWellFormed(it) ==
    /\ DOMAIN it.index = {it.records[i].key : i \in 1..Len(it.records)}
    /\ \A i \in 1..Len(it.records) : it.index[it.records[i].key] = i - 1
    /\ \A i, j \in 1..Len(it.records) :
        it.records[i].key = it.records[j].key => i = j

\* one intern call: ids are handed out in order of first insertion and never
\* change, and a key already present keeps its record
InternStepOK ==
    /\ \A k \in DOMAIN interner.index :
        k \in DOMAIN interner'.index /\ interner'.index[k] = interner.index[k]
    /\ \A k \in DOMAIN interner'.index \ DOMAIN interner.index :
        interner'.index[k] = Len(interner.records)
    /\ SubSeq(interner'.records, 1, Len(interner.records)) = interner.records
    /\ (call' # <<>> /\ call'[2] \in DOMAIN interner.index) =>
        /\ ret' = Some(interner.index[call'[2]])
        /\ interner'.records = interner.records
    /\ (call' # <<>> /\ call'[2] \notin DOMAIN interner.index) =>
        /\ ret' = Some(Len(interner.records))
        /\ Len(interner'.records) = Len(interner.records) + 1

(* C10: after any sequence of intern calls every key maps to exactly one   *)
(* NodeId, ids are 0, 1, 2, ... in order of first insertion and never      *)
(* change, get_id(key of record id) = id, and interning a key already      *)
(* present returns its id and leaves the records and its payload as they   *)
(* were.                                                                   *)
C10_InternerInvariant ==
    /\ [](InternerWellFormed(interner)
          /\ \A i \in 1..Len(interner.records) :
                GetId(interner, interner.records[i].key) = Some(i - 1))
    /\ [][InternStepOK]_vars

\* a key was interned again with a payload other than the one it holds
W10_ReinternedOtherPayload ==
    /\ call # <<>>
    /\ Len(interner.records) >= 2
    /\ ret = Some(0)
    /\ call[2] = interner.records[1].key
    /\ call[3] # interner.records[1].data

-----------------------------------------------------------------------------
(* A wrapper of either direction and any kind under a sequence of checked  *)
(* insertions, by id and by key, on an initially empty storage             *)

InitWrappers ==
    /\ interner = NewInterner
    /\ call = <<>>
    /\ ret = None
    /\ accepted = 0
    /\ storage = NewStorage
    /\ kind \in Kinds
    /\ directed \in BOOLEAN
    /\ pc = "wrapper"
    /\ alg = <<>>

\* the bookkeeping of one checked insertion whose outcome is out
Returned(name, a, b, meta, weight, out) ==
    /\ call' = <<name, a, b, meta, weight>>
    /\ ret' = Some(out.res)
    /\ accepted' = IF IsOk(out.res) THEN accepted + 1 ELSE accepted
    /\ storage' = out.st
    /\ UNCHANGED <<interner, kind, directed, pc, alg>>

ArcCall(from, to, meta, weight) ==
    /\ pc = "wrapper" /\ directed
    /\ Size(storage) + 1 <= MaxWrapRecords
    /\ from \in NodeIds(storage) /\ to \in NodeIds(storage)
    /\ Returned("add_arc_checked", from, to, meta, weight,
                AddArcChecked(kind, storage, from, to, meta, weight))

ArcByKeyCall(from_key, to_key, meta, weight) ==
    /\ pc = "wrapper" /\ directed
    /\ Size(storage) + 1 <= MaxWrapRecords
    /\ LET from == InternId(storage.nodes, from_key)
           to == InternId(AddNode(storage, from_key, "p").nodes, to_key)
       IN  Returned("add_arc_by_key_checked", from, to, meta, weight,
                    AddArcByKeyChecked(kind, storage, from_key, to_key,
                                       "p", "p", meta, weight))

EdgeCall(a, b, meta, weight) ==
    /\ pc = "wrapper" /\ ~directed
    /\ Size(storage) + 2 <= 2 * MaxWrapEdges
    /\ a \in NodeIds(storage) /\ b \in NodeIds(storage)
    /\ Returned("add_edge_checked", a, b, meta, weight,
                AddEdgeChecked(kind, storage, a, b, meta, weight))

EdgeByKeyCall(a_key, b_key, meta, weight) ==
    /\ pc = "wrapper" /\ ~directed
    /\ Size(storage) + 2 <= 2 * MaxWrapEdges
    /\ LET a == InternId(storage.nodes, a_key)
           b == InternId(AddNode(storage, a_key, "p").nodes, b_key)
       IN  Returned("add_edge_by_key_checked", a, b, meta, weight,
                    AddEdgeByKeyChecked(kind, storage, a_key, b_key,
                                        "p", "p", meta, weight))

NextWrappers ==
    \/ \E from, to \in 0..(MaxWrapNodes - 1), lab \in EdgeLabels :
        ArcCall(from, to, lab[1], lab[2])
    \/ \E from_key, to_key \in 1..MaxWrapNodes, lab \in EdgeLabels :
        ArcByKeyCall(from_key, to_key, lab[1], lab[2])
    \/ \E a, b \in 0..(MaxWrapNodes - 1), lab \in EdgeLabels :
        EdgeCall(a, b, lab[1], lab[2])
    \/ \E a_key, b_key \in 1..MaxWrapNodes, lab \in EdgeLabels :
        EdgeByKeyCall(a_key, b_key, lab[1], lab[2])

SpecWrappers == InitWrappers /\ [][NextWrappers]_vars

\* the records of st on the ordered pair a -> b
RecordsOn(st, a, b) == {e \in EdgeIds(st) : Endpoints(st, e) = <<a, b>>}
SelfLoops(st) == {e \in EdgeIds(st) : st.edges[e + 1].from = st.edges[e + 1].to}

\* what the kind tag promises of the stored records
KindInvariant ==
    /\ kind \in {"Simple", "Multi"} => SelfLoops(storage) = {}
    /\ kind = "Simple" =>
        \A e1, e2 \in EdgeIds(storage) :
            Endpoints(storage, e1) = Endpoints(storage, e2) => e1 = e2
    /\ (kind = "Simple" /\ ~directed) =>
        \A a, b \in NodeIds(storage) :
            Cardinality(RecordsOn(storage, a, b) \cup RecordsOn(storage, b, a)) <= 2
    /\ (kind = "Pseudo" /\ IsSome(ret)) => IsOk(Unwrap(ret))

\* the call made by this step breaks the constraints of the kind tag
Violating ==
    LET a == call'[2]
        b == call'[3]
    IN  \/ kind # "Pseudo" /\ a = b
        \/ /\ kind = "Simple"
           /\ \/ RecordsOn(storage, a, b) # {}
              \/ ~directed /\ RecordsOn(storage, b, a) # {}

\* a violating call returns an error and inserts nothing; any other call
\* returns Ok and appends its records
CheckedStepOK ==
    /\ Violating =>
        /\ IsErr(Unwrap(ret'))
        /\ storage'.edges = storage.edges
    /\ ~Violating =>
        /\ IsOk(Unwrap(ret'))
        /\ Len(storage'.edges) = Len(storage.edges) + (IF directed THEN 1 ELSE 2)
        /\ SubSeq(storage'.edges, 1, Len(storage.edges)) = storage.edges
        /\ storage'.edges[Len(storage.edges) + 1].from = call'[2]
        /\ storage'.edges[Len(storage.edges) + 1].to = call'[3]

(* C8: after any sequence of checked insertions on an initially empty      *)
(* graph a Simple graph holds no self-loop and no two edges on the same    *)
(* ordered (directed) or unordered (undirected) pair, a Multi graph holds  *)
(* no self-loop, a Pseudo graph accepts every insertion, and a violating   *)
(* call returns an error value instead of inserting.                       *)
C8_KindConstraints == []KindInvariant /\ [][CheckedStepOK]_vars

\* a Multi graph holds parallel edges and has rejected a self-loop
W8_MultiParallelAndRejectedLoop ==
    /\ kind = "Multi"
    /\ \E e1, e2 \in EdgeIds(storage) :
        e1 # e2 /\ Endpoints(storage, e1) = Endpoints(storage, e2)
    /\ IsSome(ret) /\ IsErr(Unwrap(ret))
    /\ call[2] = call[3]

\* the stored records come in matched pairs a -> b, b -> a
MatchedPairs(st) ==
    /\ Size(st) % 2 = 0
    /\ \A i \in 1..Size(st) :
        i % 2 = 1 =>
            st.edges[i + 1] = EdgeRecord(st.edges[i].to, st.edges[i].from,
                                         st.edges[i].meta, st.edges[i].weight)
    /\ \A e \in EdgeIds(st) : \E r \in EdgeIds(st) :
        /\ Endpoints(st, r) = <<Endpoints(st, e)[2], Endpoints(st, e)[1]>>
        /\ WeightOf(st, r) = WeightOf(st, e)

\* an accepted undirected insertion appends exactly the two records of the
\* call, with consecutive ids, and a rejected one appends none
PairStepOK ==
    ~directed =>
        /\ IsOk(Unwrap(ret')) =>
            /\ storage'.edges = storage.edges \o
                <<EdgeRecord(call'[2], call'[3], call'[4], call'[5]),
                  EdgeRecord(call'[3], call'[2], call'[4], call'[5])>>
            /\ Unwrap(ret') = Ok2(Size(storage), Size(storage) + 1)
        /\ IsErr(Unwrap(ret')) => storage'.edges = storage.edges

(* C9: after any sequence of add_edge_checked calls on an undirected       *)
(* wrapper every successful call has appended exactly the records a -> b   *)
(* and b -> a with identical meta and weight and consecutive ids, every    *)
(* rejected call none, so size() is twice the number of accepted edges and *)
(* every record u -> v has a matching record v -> u of the same weight.    *)
C9_UndirectedPairs ==
    /\ [](~directed => (MatchedPairs(storage) /\ Size(storage) = 2 * accepted))
    /\ [][PairStepOK]_vars

\* an undirected wrapper holds one weighted edge and has just rejected the
\* same edge offered in the other orientation
W9_EdgeThenRejectedReverse ==
    /\ ~directed
    /\ accepted = 1
    /\ Size(storage) = 2
    /\ IsSome(storage.edges[1].weight)
    /\ IsSome(ret) /\ IsErr(Unwrap(ret))
    /\ <<call[2], call[3]>> = <<storage.edges[1].to, storage.edges[1].from>>

-----------------------------------------------------------------------------
(* Construction of an input graph for the algorithms: nodes through the    *)
(* storage, arcs and edges through the checked by-key wrapper calls        *)

\* storage.add_node(key, data)
BuildNode(key) ==
    /\ pc = "build"
    /\ call' = <<"add_node", key>>
    /\ ret' = Some(InternId(storage.nodes, key))
    /\ storage' = AddNode(storage, key, "p")
    /\ UNCHANGED <<interner, accepted, kind, directed, pc, alg>>

\* graph.add_arc_by_key_checked(from_key, to_key, (), (), (), weight)
BuildArc(from_key, to_key, weight, maxRecords) ==
    /\ pc = "build" /\ directed
    /\ Size(storage) + 1 <= maxRecords
    /\ LET from == InternId(storage.nodes, from_key)
           to == InternId(AddNode(storage, from_key, "p").nodes, to_key)
       IN  Returned("add_arc_by_key_checked", from, to, "m", weight,
                    AddArcByKeyChecked(kind, storage, from_key, to_key,
                                       "p", "p", "m", weight))

\* graph.add_edge_by_key_checked(a_key, b_key, (), (), (), weight)
BuildEdge(a_key, b_key, weight, maxEdges) ==
    /\ pc = "build" /\ ~directed
    /\ Size(storage) + 2 <= 2 * maxEdges
    /\ LET a == InternId(storage.nodes, a_key)
           b == InternId(AddNode(storage, a_key, "p").nodes, b_key)
       IN  Returned("add_edge_by_key_checked", a, b, "m", weight,
                    AddEdgeByKeyChecked(kind, storage, a_key, b_key,
                                        "p", "p", "m", weight))

\* from_edges: a Simple wrapper on an empty storage, one checked by-key
\* insertion per listed (from_key, to_key, weight), each unwrapped: the
\* first rejected insertion ends the construction with its error
RECURSIVE FromEdgesFrom(_, _, _, _)
FromEdgesFrom(dir, st, edges, i) ==
    IF i > Len(edges) THEN [st |-> st, res |-> <<"Ok">>]
    ELSE LET out == IF dir
                    THEN AddArcByKeyChecked("Simple", st, edges[i][1], edges[i][2],
                                            "p", "p", "m", edges[i][3])
                    ELSE AddEdgeByKeyChecked("Simple", st, edges[i][1], edges[i][2],
                                             "p", "p", "m", edges[i][3])
         IN  IF IsErr(out.res) THEN out
             ELSE FromEdgesFrom(dir, out.st, edges, i + 1)

FromEdges(dir, edges) == FromEdgesFrom(dir, NewStorage, edges, 1)

-----------------------------------------------------------------------------
(* dijkstra (algorithms/dijkstra.rs) *)

MaxDijNodes == 3        \* node keys offered to the graph dijkstra runs on
MaxDijArcs == 3         \* arcs of the graph dijkstra runs on
DijWeights == {1, 3}    \* arc weights offered

\* dijkstra_example: the keys s, u, x, v, y are 1, 2, 3, 4, 5
DijkstraExample ==
    FromEdges(TRUE, << <<1, 2, Some(10)>>, <<1, 3, Some(5)>>, <<2, 3, Some(2)>>,
                       <<3, 2, Some(3)>>, <<2, 4, Some(1)>>, <<3, 4, Some(9)>>,
                       <<3, 5, Some(2)>>, <<4, 5, Some(4)>>, <<5, 4, Some(6)>>,
                       <<5, 1, Some(7)>> >>).st

\* the comparison of min_by: a known weight is less than an unknown one
TentativeLess(wa, wb) ==
    IF IsSome(wa) /\ IsSome(wb) THEN Unwrap(wa) < Unwrap(wb)
    ELSE IsSome(wa) /\ ~IsSome(wb)

\* Iterator::min_by over the unvisited set: the first of the least elements
RECURSIVE MinByFrom(_, _, _, _)
MinByFrom(unvisited, tw, i, best) ==
    IF i > Len(unvisited) THEN best
    ELSE MinByFrom(unvisited, tw, i + 1,
                   IF TentativeLess(tw[unvisited[i] + 1], tw[best + 1])
                   THEN unvisited[i] ELSE best)

MinBy(unvisited, tw) == MinByFrom(unvisited, tw, 2, unvisited[1])

\* IndexSet::shift_remove: the remaining elements keep their order
ShiftRemove(set, x) == SelectSeq(set, LAMBDA y : y # x)

\* the least element of a non-empty set of integers
MinOf(S) == CHOOSE x \in S : \A y \in S : x <= y

\* the weights of the weighted records from -> to
WeightsBetween(st, from, to) ==
    {Unwrap(WeightOf(st, e)) :
        e \in {x \in Range(EdgesBetween(st, from, to)) : IsSome(WeightOf(st, x))}}

\* the loop over the successors of current, from the i-th on; d holds
\* tentative_weights, predecessors, unvisited and the message of a failed
\* expect ("" while none has failed)
RECURSIVE RelaxFrom(_, _, _, _, _, _)
RelaxFrom(dir, st, current, succ, i, d) ==
    IF i > Len(succ) \/ d.msg # "" THEN d
    ELSE LET neighbor == succ[i]
             ws == WeightsBetween(st, current, neighbor)
             cw == d.tentative_weights[current + 1]
         IN  IF neighbor \notin Range(d.unvisited)
             THEN RelaxFrom(dir, st, current, succ, i + 1, d)
             ELSE IF ws = {}
             THEN [d EXCEPT !.msg = "There should be at least one edge between current and neighbor in successors"]
             ELSE IF ~IsSome(cw)
             THEN [d EXCEPT !.msg = "Current node should have a tentative weight"]
             ELSE LET alt_weight == Unwrap(cw) + MinOf(ws)
                      nw == d.tentative_weights[neighbor + 1]
                  IN  IF ~IsSome(nw) \/ alt_weight < Unwrap(nw)
                      THEN RelaxFrom(dir, st, current, succ, i + 1,
                               [d EXCEPT
                                   !.tentative_weights[neighbor + 1] = Some(alt_weight),
                                   !.predecessors[neighbor + 1] = Some(current)])
                      ELSE RelaxFrom(dir, st, current, succ, i + 1, d)

\* one iteration of the while loop
DijkstraIteration(dir, st, d) ==
    LET current == MinBy(d.unvisited, d.tentative_weights)
        d1 == [d EXCEPT !.unvisited = ShiftRemove(d.unvisited, current)]
    IN  RelaxFrom(dir, st, current, Successors(dir, st, current), 1, d1)

\* the locals of dijkstra before its loop
DijkstraLocals(st, source_id) ==
    [source_id |-> source_id,
     tentative_weights |->
        [i \in 1..Order(st) |-> IF i = source_id + 1 THEN Some(0) ELSE None],
     predecessors |-> [i \in 1..Order(st) |-> None],
     unvisited |-> [i \in 1..Order(st) |-> i - 1],
     msg |-> ""]

DijkstraResult(st, d) ==
    [nodes |-> [i \in 1..Order(st) |-> NodeKey(st, i - 1)],
     tentative_weights |-> d.tentative_weights,
     predecessors |-> d.predecessors]

InitDijkstra ==
    /\ interner = NewInterner
    /\ call = <<>>
    /\ ret = None
    /\ accepted = 0
    /\ \/ storage = NewStorage /\ kind = "Pseudo"
       \/ storage = DijkstraExample /\ kind = "Simple"
    /\ directed = TRUE
    /\ pc = "build"
    /\ alg = <<>>

\* dijkstra(&graph, start) up to its loop
DijkstraCall(start) ==
    /\ pc = "build"
    /\ call' = <<"dijkstra", start>>
    /\ ret' = None
    /\ IF IsSome(NodeIdOf(storage, start))
       THEN /\ pc' = "dijkstra"
            /\ alg' = DijkstraLocals(storage, Unwrap(NodeIdOf(storage, start)))
       ELSE /\ pc' = "aborted"
            /\ alg' = [msg |-> "Start node not found in graph"]
    /\ UNCHANGED <<interner, accepted, varsG>>

DijkstraVisit ==
    /\ pc = "dijkstra"
    /\ alg.unvisited # <<>>
    /\ alg' = DijkstraIteration(directed, storage, alg)
    /\ pc' = IF alg'.msg # "" THEN "aborted" ELSE "dijkstra"
    /\ UNCHANGED <<interner, varsCall, varsG>>

DijkstraReturn ==
    /\ pc = "dijkstra"
    /\ alg.unvisited = <<>>
    /\ ret' = Some(DijkstraResult(storage, alg))
    /\ pc' = "returned"
    /\ UNCHANGED <<interner, call, accepted, varsG, alg>>

NextDijkstra ==
    \/ \E key \in 1..MaxDijNodes : BuildNode(key)
    \/ \E from_key, to_key \in 1..MaxDijNodes, w \in DijWeights :
        BuildArc(from_key, to_key, Some(w), MaxDijArcs)
    \/ \E start \in 1..MaxDijNodes : DijkstraCall(start)
    \/ DijkstraVisit
    \/ DijkstraReturn

SpecDijkstra == InitDijkstra /\ [][NextDijkstra]_vars

\* the sequences of distinct nodes from s to v whose consecutive nodes are
\* joined by a weighted arc
SimplePaths(st, s, v) ==
    {p \in UNION {[1..k -> NodeIds(st)] : k \in 1..Order(st)} :
        /\ p[1] = s /\ p[Len(p)] = v
        /\ \A i, j \in 1..Len(p) : p[i] = p[j] => i = j
        /\ \A i \in 1..(Len(p) - 1) : WeightsBetween(st, p[i], p[i + 1]) # {}}

\* the least total weight of the arcs of a path
RECURSIVE PathWeight(_, _, _)
PathWeight(st, p, i) ==
    IF i >= Len(p) THEN 0
    ELSE MinOf(WeightsBetween(st, p[i], p[i + 1])) + PathWeight(st, p, i + 1)

MinPathWeight(st, s, v) == MinOf({PathWeight(st, p, 1) : p \in SimplePaths(st, s, v)})

\* what dijkstra reports is the least path weight of every reachable node
ReportsMinimum ==
    pc = "returned" =>
        \A v \in NodeIds(storage) :
            SimplePaths(storage, alg.source_id, v) # {} =>
                Unwrap(ret).tentative_weights[v + 1] =
                    Some(MinPathWeight(storage, alg.source_id, v))

(* C1: for every directed graph with non-negative weights and every start  *)
(* key present in it, dijkstra reports for every node reachable from the   *)
(* start the least total weight of a path from the start to it: the call   *)
(* with a present start key does not abort, and what it returns holds the  *)
(* minimum for each reachable node.                                        *)
C1_DijkstraMinimum ==
    /\ pc = "aborted" => alg.msg = "Start node not found in graph"
    /\ ReportsMinimum

-----------------------------------------------------------------------------
(* ford_fulkerson (algorithms/ford_fulkerson.rs) *)

MaxFFNodes == 3         \* node keys offered to a flow network
MaxFFEdges == 3         \* edges of a flow network
MaxFFSteps == 6         \* iterations of the augmentation loop followed
FFCaps == {0, 1, 2}     \* capacities offered
InitialFlows == {0}     \* initial flows offered

\* A u32 is held as the i32 of the same 32 bits, so that the casts between
\* the two widths keep the bits and u32::MAX is the pattern of -1; the order
\* of u32 is the unsigned order of the patterns.
U32Max == -1
AsI32(x) == x
AsU32(x) == x
U32Less(a, b) == IF (a < 0) = (b < 0) THEN a < b ELSE b < 0

\* HashMap<(NodeId, NodeId), i32>
FlowNew == <<>>
FlowGet(m, u, v) == IF <<u, v>> \in DOMAIN m THEN m[<<u, v>>] ELSE 0
FlowInsert(m, u, v, x) == (<<u, v>> :> x) @@ m

\* Flow + &Flow
FlowAdd(a, b) ==
    [k \in DOMAIN a \cup DOMAIN b |->
        (IF k \in DOMAIN a THEN a[k] ELSE 0) + (IF k \in DOMAIN b THEN b[k] ELSE 0)]

\* storage.add_edge_by_key
AddEdgeByKey(st, from_key, to_key, from_data, to_data, meta, weight) ==
    LET st1 == AddNode(st, from_key, from_data)
        from == InternId(st.nodes, from_key)
        st2 == AddNode(st1, to_key, to_data)
        to == InternId(st1.nodes, to_key)
    IN  AddEdgeById(st2, from, to, meta, weight)

\* a residual network that leaves out the backward arcs
RECURSIVE ResidualForwardOnly(_, _, _, _, _)
ResidualForwardOnly(st, capacity, flow, e, r) ==
    IF e >= Size(st) THEN r
    ELSE LET src == Endpoints(st, e)[1]
             dst == Endpoints(st, e)[2]
             new_capacity == AsI32(capacity[e + 1]) - FlowGet(flow, src, dst)
         IN  ResidualForwardOnly(st, capacity, flow, e + 1,
                 IF new_capacity > 0
                 THEN [st |-> AddEdgeById(r.st, src, dst, EdgeMeta(st, e), None),
                       capacity |-> Append(r.capacity, AsU32(new_capacity))]
                 ELSE r)

\* residual_network: the loop over the edges of the flow network from edge
\* e on; r is the residual graph and its capacities so far
RECURSIVE ResidualFrom(_, _, _, _, _)
ResidualFrom(st, capacity, flow, e, r) ==
    IF e >= Size(st) THEN r
    ELSE LET src == Endpoints(st, e)[1]
             dst == Endpoints(st, e)[2]
             fwd_flow == FlowGet(flow, src, dst)
             new_capacity == AsI32(capacity[e + 1]) - fwd_flow
             r1 == IF new_capacity > 0
                   THEN [st |-> AddEdgeById(r.st, src, dst, EdgeMeta(st, e), None),
                         capacity |-> Append(r.capacity, AsU32(new_capacity))]
                   ELSE r
             r2 == IF EdgesBetween(st, dst, src) = <<>> /\ fwd_flow > 0
                   THEN [st |-> AddEdgeById(r1.st, dst, src, EdgeMeta(st, e), None),
                         capacity |-> Append(r1.capacity, AsU32(fwd_flow))]
                   ELSE r1
         IN  ResidualFrom(st, capacity, flow, e + 1, r2)

\* a residual network built on the edges of the flow network: clear_edges
\* left out
ResidualNetworkUncleared(st, capacity, flow) ==
    ResidualFrom(st, capacity, flow, 0, [st |-> st, capacity |-> <<>>])

ResidualNetwork(st, capacity, flow) ==
    ResidualFrom(st, capacity, flow, 0, [st |-> ClearEdges(st), capacity |-> <<>>])

\* the loop over the successors of current in the breadth-first search;
\* visited is the domain of parent
RECURSIVE BfsVisitFrom(_, _, _, _, _)
BfsVisitFrom(succ, i, current, queue, parent) ==
    IF i > Len(succ) THEN [queue |-> queue, parent |-> parent]
    ELSE IF succ[i] \in DOMAIN parent
    THEN BfsVisitFrom(succ, i + 1, current, queue, parent)
    ELSE BfsVisitFrom(succ, i + 1, current, Append(queue, succ[i]),
                      (succ[i] :> Some(current)) @@ parent)

\* the breadth-first search from the source for the sink
RECURSIVE Bfs(_, _, _, _)
Bfs(rst, sink_id, queue, parent) ==
    IF queue = <<>> THEN [found |-> FALSE, parent |-> parent]
    ELSE IF Head(queue) = sink_id THEN [found |-> TRUE, parent |-> parent]
    ELSE LET v == BfsVisitFrom(StorageSuccessors(rst, Head(queue)), 1,
                               Head(queue), Tail(queue), parent)
         IN  Bfs(rst, sink_id, v.queue, v.parent)

\* a bottleneck taken from the arc into v alone, not from the whole path
PathCapacityLastArc(r, parent, v, path_capacity) ==
    IF ~IsSome(parent[v]) THEN path_capacity
    ELSE LET edge_ids == EdgesBetween(r.st, Unwrap(parent[v]), v)
         IN  IF edge_ids # <<>> THEN r.capacity[Head(edge_ids) + 1] ELSE path_capacity

\* the bottleneck of the path that parent describes, from v back to the source
RECURSIVE PathCapacity(_, _, _, _)
PathCapacity(r, parent, v, path_capacity) ==
    IF ~IsSome(parent[v]) THEN path_capacity
    ELSE LET u == Unwrap(parent[v])
             edge_ids == EdgesBetween(r.st, u, v)
             cap == r.capacity[Head(edge_ids) + 1]
         IN  PathCapacity(r, parent, u,
                 IF edge_ids # <<>> /\ U32Less(cap, path_capacity) THEN cap ELSE path_capacity)

\* a faulty push that adds the bottleneck on the arc and leaves the reverse
\* entry alone
RECURSIVE PushFlowOneWay(_, _, _, _)
PushFlowOneWay(flow, parent, v, path_capacity) ==
    IF ~IsSome(parent[v]) THEN flow
    ELSE LET u == Unwrap(parent[v])
         IN  PushFlowOneWay(FlowInsert(flow, u, v, FlowGet(flow, u, v) + AsI32(path_capacity)),
                            parent, u, path_capacity)

\* the flow after the bottleneck is pushed along the path, from v back to
\* the source
RECURSIVE PushFlow(_, _, _, _)
PushFlow(flow, parent, v, path_capacity) ==
    IF ~IsSome(parent[v]) THEN flow
    ELSE LET u == Unwrap(parent[v])
             f1 == FlowInsert(flow, u, v, FlowGet(flow, u, v) + AsI32(path_capacity))
             f2 == FlowInsert(f1, v, u, FlowGet(f1, v, u) - AsI32(path_capacity))
         IN  PushFlow(f2, parent, u, path_capacity)

\* the node keys of the path, source first
RECURSIVE PathKeys(_, _, _)
PathKeys(st, parent, v) ==
    IF ~IsSome(parent[v]) THEN <<NodeKey(st, v)>>
    ELSE Append(PathKeys(st, parent, Unwrap(parent[v])), NodeKey(st, v))

\* the flow map of ford_fulkerson before its loop: 0 on both orientations of
\* every edge
RECURSIVE ZeroFlowFrom(_, _, _)
ZeroFlowFrom(st, e, flow) ==
    IF e >= Size(st) THEN flow
    ELSE ZeroFlowFrom(st, e + 1,
            FlowInsert(FlowInsert(flow, Endpoints(st, e)[1], Endpoints(st, e)[2], 0),
                       Endpoints(st, e)[2], Endpoints(st, e)[1], 0))

\* one iteration of the loop of ford_fulkerson on the locals d
FordFulkersonIteration(st, d) ==
    LET r == ResidualNetwork(st, d.capacity, d.network_flow)
        b == Bfs(r.st, d.sink, <<d.source>>, (d.source :> None))
        path_capacity == PathCapacity(r, b.parent, d.sink, U32Max)
        flow == PushFlow(d.flow, b.parent, d.sink, path_capacity)
    IN  IF ~b.found
        THEN [d EXCEPT !.networks = Append(@, [residual |-> r, network |-> None,
                                               path |-> <<>>, bottleneck |-> 0]),
                       !.done = TRUE]
        ELSE [d EXCEPT !.flow = flow,
                       !.network_flow = FlowAdd(d.original_flow, flow),
                       !.networks = Append(@, [residual |-> r, network |-> Some(flow),
                                               path |-> PathKeys(st, b.parent, d.sink),
                                               bottleneck |-> path_capacity])]

\* the sum of an integer-valued function over a finite set
RECURSIVE SumOver(_, _)
SumOver(S, f) ==
    IF S = {} THEN 0
    ELSE LET x == CHOOSE y \in S : TRUE IN f[x] + SumOver(S \ {x}, f)

\* max_flow: the sum of the flow entries whose first node is the source
MaxFlowOf(d) ==
    AsU32(SumOver({k \in DOMAIN d.flow : k[1] = d.source}, d.flow))

\* FlowNetwork::from_edges: one iteration of its loop, on the network n
FlowNetworkEdge(n, from_key, to_key, flow, cap) ==
    LET st == AddEdgeByKey(n.st, from_key, to_key, "p", "p", "m", None)
    IN  [st |-> st,
         capacity |-> Append(n.capacity, cap),
         flow_map |-> FlowInsert(n.flow_map, Unwrap(NodeIdOf(st, from_key)),
                                 Unwrap(NodeIdOf(st, to_key)), flow)]

RECURSIVE FlowNetworkFromEdges(_, _, _)
FlowNetworkFromEdges(edges, i, n) ==
    IF i > Len(edges) THEN n
    ELSE FlowNetworkFromEdges(edges, i + 1,
            FlowNetworkEdge(n, edges[i][1], edges[i][2], edges[i][3], edges[i][4]))

FlowNetworkNew == [st |-> NewStorage, capacity |-> <<>>, flow_map |-> FlowNew]

\* a network on s, a, c, d, e, t = 1..6 whose first shortest path s a d t
\* has to be partly undone to reach the maximum
CrossingNetwork ==
    FlowNetworkFromEdges(<< <<1, 2, 0, 1>>, <<1, 3, 0, 1>>, <<2, 4, 0, 1>>,
                            <<2, 5, 0, 1>>, <<3, 4, 0, 1>>, <<4, 6, 0, 1>>,
                            <<5, 6, 0, 1>> >>, 1, FlowNetworkNew)

\* ford_fulkerson_example, the network with zero initial flow: the keys
\* s, b, e, g, c, d, f, t, h are 1..9
ExampleNetwork ==
    FlowNetworkFromEdges(<< <<1, 2, 0, 12>>, <<1, 3, 0, 15>>, <<1, 4, 0, 13>>,
                            <<2, 5, 0, 9>>, <<3, 5, 0, 11>>, <<5, 6, 0, 18>>,
                            <<5, 7, 0, 10>>, <<7, 6, 0, 6>>, <<7, 8, 0, 20>>,
                            <<6, 8, 0, 12>>, <<4, 9, 0, 12>>, <<9, 3, 0, 8>>,
                            <<9, 7, 0, 6>>, <<9, 8, 0, 10>> >>, 1, FlowNetworkNew)

InitFordFulkerson ==
    /\ interner = NewInterner
    /\ call = <<>>
    /\ ret = None
    /\ accepted = 0
    /\ \E n \in {FlowNetworkNew, CrossingNetwork, ExampleNetwork} :
        /\ storage = n.st
        /\ alg = [capacity |-> n.capacity, flow_map |-> n.flow_map]
    /\ kind = "Simple"
    /\ directed = TRUE
    /\ pc = "build"

\* one more edge handed to FlowNetwork::from_edges
BuildFlowEdge(from_key, to_key, flow, cap) ==
    /\ pc = "build"
    /\ Size(storage) + 1 <= MaxFFEdges
    /\ LET n == FlowNetworkEdge([st |-> storage, capacity |-> alg.capacity,
                                 flow_map |-> alg.flow_map],
                                from_key, to_key, flow, cap)
       IN  /\ storage' = n.st
           /\ alg' = [capacity |-> n.capacity, flow_map |-> n.flow_map]
    /\ call' = <<"from_edges", from_key, to_key, flow, cap>>
    /\ UNCHANGED <<interner, ret, accepted, kind, directed, pc>>

\* the end of FlowNetwork::from_edges with its source and sink keys, and
\* ford_fulkerson on the network up to its loop
FordFulkersonCall(source_key, sink_key) ==
    /\ pc = "build"
    /\ call' = <<"ford_fulkerson", source_key, sink_key>>
    /\ ret' = None
    /\ IF ~IsSome(NodeIdOf(storage, source_key))
       THEN pc' = "aborted" /\ alg' = [msg |-> "Source node key not found in graph"]
       ELSE IF ~IsSome(NodeIdOf(storage, sink_key))
       THEN pc' = "aborted" /\ alg' = [msg |-> "Sink node key not found in graph"]
       ELSE /\ pc' = "ford_fulkerson"
            /\ alg' = [capacity |-> alg.capacity,
                       source |-> Unwrap(NodeIdOf(storage, source_key)),
                       sink |-> Unwrap(NodeIdOf(storage, sink_key)),
                       original_flow |-> alg.flow_map,
                       network_flow |-> alg.flow_map,
                       flow |-> ZeroFlowFrom(storage, 0, FlowNew),
                       networks |-> <<>>,
                       done |-> FALSE,
                       msg |-> ""]
    /\ UNCHANGED <<interner, accepted, varsG>>

FordFulkersonStep ==
    /\ pc = "ford_fulkerson"
    /\ ~alg.done
    /\ Len(alg.networks) < MaxFFSteps
    /\ alg' = FordFulkersonIteration(storage, alg)
    /\ UNCHANGED <<interner, varsCall, varsG, pc>>

FordFulkersonReturn ==
    /\ pc = "ford_fulkerson"
    /\ alg.done
    /\ ret' = Some([max_flow |-> MaxFlowOf(alg), flow |-> alg.flow,
                    steps |-> alg.networks])
    /\ pc' = "returned"
    /\ UNCHANGED <<interner, call, accepted, varsG, alg>>

NextFordFulkerson ==
    \/ \E from_key, to_key \in 1..MaxFFNodes, f \in InitialFlows, cap \in FFCaps :
        BuildFlowEdge(from_key, to_key, f, cap)
    \/ \E source_key, sink_key \in
            1..MaxFFNodes \cup {NodeKey(storage, v) : v \in NodeIds(storage)} :
        FordFulkersonCall(source_key, sink_key)
    \/ FordFulkersonStep
    \/ FordFulkersonReturn

SpecFordFulkerson == InitFordFulkerson /\ [][NextFordFulkerson]_vars

\* the capacity of the cut (S, rest): the capacities of the edges leaving S
CutCapacity(st, capacity, S) ==
    SumOver({e \in EdgeIds(st) : Endpoints(st, e)[1] \in S /\ Endpoints(st, e)[2] \notin S},
            [e \in EdgeIds(st) |-> capacity[e + 1]])

\* the least capacity of a cut that separates the source from the sink
MinCut(st, capacity, source, sink) ==
    MinOf({CutCapacity(st, capacity, S \cup {source}) :
            S \in SUBSET (NodeIds(st) \ {source, sink})})

\* at most one edge on every ordered pair
OneEdgePerPair(st) ==
    \A e1, e2 \in EdgeIds(st) : Endpoints(st, e1) = Endpoints(st, e2) => e1 = e2

-----------------------------------------------------------------------------
(* kruskal_mst (algorithms/kruskal.rs) *)

MaxKrNodes == 3         \* node keys offered to the graph kruskal_mst runs on
MaxKrArcs == 3          \* arcs of a directed input graph
MaxKrEdges == 3         \* undirected edges of an undirected input graph
KrWeights == {None, Some(1), Some(2)}   \* edge weights offered

\* UnionFind::new
UnionFindNew(n) == [parent |-> [i \in 1..n |-> i - 1], rank |-> [i \in 1..n |-> 0]]

\* UnionFind::find, with its path compression
RECURSIVE Find(_, _)
Find(uf, i) ==
    IF uf.parent[i + 1] # i
    THEN LET r == Find(uf, uf.parent[i + 1])
         IN  [uf |-> [r.uf EXCEPT !.parent[i + 1] = r.root], root |-> r.root]
    ELSE [uf |-> uf, root |-> i]

\* UnionFind::union
Union(uf, i, j) ==
    LET fi == Find(uf, i)
        fj == Find(fi.uf, j)
        root_i == fi.root
        root_j == fj.root
        u == fj.uf
    IN  IF root_i # root_j
        THEN [merged |-> TRUE,
              uf |-> IF u.rank[root_i + 1] < u.rank[root_j + 1]
                     THEN [u EXCEPT !.parent[root_i + 1] = root_j]
                     ELSE IF u.rank[root_i + 1] > u.rank[root_j + 1]
                     THEN [u EXCEPT !.parent[root_j + 1] = root_i]
                     ELSE [u EXCEPT !.parent[root_j + 1] = root_i,
                                    !.rank[root_i + 1] = @ + 1]]
        ELSE [merged |-> FALSE, uf |-> u]

\* the (edge id, weight) pairs of the weighted records, in id order
RECURSIVE WeightedEdgesFrom(_, _)
WeightedEdgesFrom(st, e) ==
    IF e >= Size(st) THEN <<>>
    ELSE (IF IsSome(WeightOf(st, e)) THEN <<<<e, Unwrap(WeightOf(st, e))>>>> ELSE <<>>)
         \o WeightedEdgesFrom(st, e + 1)

\* x put into a sequence sorted by weight, after the pairs that are no heavier
RECURSIVE InsertByWeight(_, _)
InsertByWeight(sorted, x) ==
    IF sorted = <<>> THEN <<x>>
    ELSE IF x[2] < Head(sorted)[2] THEN <<x>> \o sorted
    ELSE <<Head(sorted)>> \o InsertByWeight(Tail(sorted), x)

\* a sort that leaves the pairs in the order of their edge ids
KeepIdOrder(edges, i) == edges

\* sort_by on the weights: a stable sort of the first i pairs
RECURSIVE SortByWeight(_, _)
SortByWeight(edges, i) ==
    IF i = 0 THEN <<>>
    ELSE InsertByWeight(SortByWeight(edges, i - 1), edges[i])

\* the locals of kruskal_mst before its loop
KruskalLocals(st) ==
    [edges |-> SortByWeight(WeightedEdgesFrom(st, 0), Len(WeightedEdgesFrom(st, 0))),
     next |-> 1,
     uf |-> UnionFindNew(Order(st)),
     mst_edges |-> <<>>,
     total_weight |-> 0]

\* one iteration of the loop over the sorted edges
KruskalIteration(st, d) ==
    LET eid == d.edges[d.next][1]
        w == d.edges[d.next][2]
        u == Endpoints(st, eid)[1]
        v == Endpoints(st, eid)[2]
        un == Union(d.uf, u, v)
    IN  IF un.merged
        THEN [d EXCEPT !.next = @ + 1,
                       !.uf = un.uf,
                       !.mst_edges = Append(@, <<NodeKey(st, u), NodeKey(st, v), w>>),
                       !.total_weight = @ + w]
        ELSE [d EXCEPT !.next = @ + 1, !.uf = un.uf]

InitKruskal ==
    /\ interner = NewInterner
    /\ call = <<>>
    /\ ret = None
    /\ accepted = 0
    /\ storage = NewStorage
    /\ kind = "Pseudo"
    /\ directed \in BOOLEAN
    /\ pc = "build"
    /\ alg = <<>>

KruskalCall ==
    /\ pc = "build"
    /\ call' = <<"kruskal_mst">>
    /\ ret' = None
    /\ alg' = KruskalLocals(storage)
    /\ pc' = "kruskal"
    /\ UNCHANGED <<interner, accepted, varsG>>

KruskalStep ==
    /\ pc = "kruskal"
    /\ alg.next <= Len(alg.edges)
    /\ alg' = KruskalIteration(storage, alg)
    /\ UNCHANGED <<interner, varsCall, varsG, pc>>

KruskalReturn ==
    /\ pc = "kruskal"
    /\ alg.next > Len(alg.edges)
    /\ ret' = Some([edges |-> alg.mst_edges, total_weight |-> alg.total_weight])
    /\ pc' = "returned"
    /\ UNCHANGED <<interner, call, accepted, varsG, alg>>

NextKruskal ==
    \/ \E from_key, to_key \in 1..MaxKrNodes, w \in KrWeights :
        BuildArc(from_key, to_key, w, MaxKrArcs)
    \/ \E a_key, b_key \in 1..MaxKrNodes, w \in KrWeights :
        BuildEdge(a_key, b_key, w, MaxKrEdges)
    \/ KruskalCall
    \/ KruskalStep
    \/ KruskalReturn

SpecKruskal == InitKruskal /\ [][NextKruskal]_vars

\* the nodes joined to a node of S by the links, a set of node pairs read
\* without direction
RECURSIVE Grow(_, _)
Grow(S, links) ==
    LET T == S \cup {l[2] : l \in {x \in links : x[1] \in S}}
               \cup {l[1] : l \in {x \in links : x[2] \in S}}
    IN  IF T = S THEN S ELSE Grow(T, links)

\* the connected components of the nodes under the links
Components(nodes, links) == {Grow({v}, links) : v \in nodes}

WeightedEdges(st) == {e \in EdgeIds(st) : IsSome(WeightOf(st, e))}
LinksOf(st, F) == {Endpoints(st, e) : e \in F}

\* the spanning forests of the weighted edges: no cycle and the components
\* of all the weighted edges
SpanningForests(st) ==
    {F \in SUBSET WeightedEdges(st) :
        /\ Components(NodeIds(st), LinksOf(st, F)) =
            Components(NodeIds(st), LinksOf(st, WeightedEdges(st)))
        /\ Cardinality(F) =
            Order(st) - Cardinality(Components(NodeIds(st), LinksOf(st, F)))}

TotalWeight(st, F) == SumOver(F, [e \in F |-> Unwrap(WeightOf(st, e))])

\* the node pairs of the returned (key, key, weight) triples
ResultLinks(st, edges) ==
    {<<Unwrap(NodeIdOf(st, edges[i][1])), Unwrap(NodeIdOf(st, edges[i][2]))>> :
        i \in 1..Len(edges)}

(* C3: the edges kruskal_mst returns are weighted edges of the input that  *)
(* contain no cycle and connect every pair of nodes the weighted edges of  *)
(* the input connect, no spanning forest of the input weighs less, and     *)
(* total_weight is the sum of the weights of the returned edges.           *)
C3_KruskalMinimumForest ==
    pc = "returned" =>
        LET res == Unwrap(ret).edges
            links == ResultLinks(storage, res)
        IN  /\ \A i \in 1..Len(res) : \E e \in WeightedEdges(storage) :
                /\ Endpoints(storage, e) =
                    <<Unwrap(NodeIdOf(storage, res[i][1])),
                      Unwrap(NodeIdOf(storage, res[i][2]))>>
                /\ WeightOf(storage, e) = Some(res[i][3])
            /\ Len(res) = Order(storage) - Cardinality(Components(NodeIds(storage), links))
            /\ Components(NodeIds(storage), links) =
                Components(NodeIds(storage), LinksOf(storage, WeightedEdges(storage)))
            /\ \A F \in SpanningForests(storage) :
                Unwrap(ret).total_weight <= TotalWeight(storage, F)
            /\ Unwrap(ret).total_weight =
                SumOver(1..Len(res), [i \in 1..Len(res) |-> res[i][3]])

\* the first edge of a triangle is its heaviest, and kruskal_mst has left it
\* out of the two edges it returned
W3_HeaviestFirstEdgeLeftOut ==
    /\ pc = "returned"
    /\ Order(storage) = 3
    /\ Len(Unwrap(ret).edges) = 2
    /\ Unwrap(ret).total_weight = 2
    /\ WeightOf(storage, 0) = Some(2)
    /\ Endpoints(storage, 0)[1] # Endpoints(storage, 0)[2]

-----------------------------------------------------------------------------
(* warshall_closure (algorithms/warshall.rs) *)

MaxWaNodes == 3         \* node keys offered to the graph warshall_closure runs on
MaxWaArcs == 3          \* arcs of a directed input graph
MaxWaEdges == 2         \* undirected edges of an undirected input graph

\* the matrix before the main loop: the diagonal and one cell per edge record
ClosureInit(st) ==
    [i \in 1..Order(st) |->
        [j \in 1..Order(st) |->
            i = j \/ \E e \in EdgeIds(st) : Endpoints(st, e) = <<i - 1, j - 1>>]]

\* a round that sets a cell as soon as one of the two cells it reads is set
RECURSIVE WarshallCellsEither(_, _, _, _)
WarshallCellsEither(closure, n, k, t) ==
    IF t >= n * n THEN closure
    ELSE WarshallCellsEither(
            IF closure[(t \div n) + 1][k + 1] \/ closure[k + 1][(t % n) + 1]
            THEN [closure EXCEPT ![(t \div n) + 1][(t % n) + 1] = TRUE]
            ELSE closure, n, k, t + 1)

\* the loops over i and j for one k, in place, from the cell i = t / n,
\* j = t % n on
RECURSIVE WarshallCells(_, _, _, _)
WarshallCells(closure, n, k, t) ==
    IF t >= n * n THEN closure
    ELSE WarshallCells(
            IF closure[(t \div n) + 1][k + 1] /\ closure[k + 1][(t % n) + 1]
            THEN [closure EXCEPT ![(t \div n) + 1][(t % n) + 1] = TRUE]
            ELSE closure, n, k, t + 1)

InitWarshall ==
    /\ interner = NewInterner
    /\ call = <<>>
    /\ ret = None
    /\ accepted = 0
    /\ storage = NewStorage
    /\ kind = "Pseudo"
    /\ directed \in BOOLEAN
    /\ pc = "build"
    /\ alg = <<>>

WarshallCall ==
    /\ pc = "build"
    /\ call' = <<"warshall_closure">>
    /\ ret' = None
    /\ alg' = [n |-> Order(storage), closure |-> ClosureInit(storage), k |-> 0]
    /\ pc' = "warshall"
    /\ UNCHANGED <<interner, accepted, varsG>>

WarshallRound ==
    /\ pc = "warshall"
    /\ alg.k < alg.n
    /\ alg' = [alg EXCEPT !.closure = WarshallCells(alg.closure, alg.n, alg.k, 0),
                          !.k = @ + 1]
    /\ UNCHANGED <<interner, varsCall, varsG, pc>>

WarshallReturn ==
    /\ pc = "warshall"
    /\ alg.k >= alg.n
    /\ ret' = Some([nodes |-> [i \in 1..Order(storage) |-> NodeKey(storage, i - 1)],
                    closure |-> alg.closure])
    /\ pc' = "returned"
    /\ UNCHANGED <<interner, call, accepted, varsG, alg>>

NextWarshall ==
    \/ \E key \in 1..MaxWaNodes : BuildNode(key)
    \/ \E from_key, to_key \in 1..MaxWaNodes : BuildArc(from_key, to_key, None, MaxWaArcs)
    \/ \E a_key, b_key \in 1..MaxWaNodes : BuildEdge(a_key, b_key, None, MaxWaEdges)
    \/ WarshallCall
    \/ WarshallRound
    \/ WarshallReturn

SpecWarshall == InitWarshall /\ [][NextWarshall]_vars

\* the nodes that a directed path of zero or more edge records leads to from
\* a node of S
RECURSIVE ReachFrom(_, _)
ReachFrom(st, S) ==
    LET T == S \cup {Endpoints(st, e)[2] :
                        e \in {x \in EdgeIds(st) : Endpoints(st, x)[1] \in S}}
    IN  IF T = S THEN S ELSE ReachFrom(st, T)

(* C4: the matrix warshall_closure returns is reflexive and transitive and *)
(* closure[i][j] is true exactly when j is reachable from i by a directed  *)
(* path of zero or more edges.                                             *)
C4_WarshallClosure ==
    pc = "returned" =>
        LET c == Unwrap(ret).closure
            N == NodeIds(storage)
        IN  /\ \A i \in N : c[i + 1][i + 1]
            /\ \A i, j, k \in N : (c[i + 1][j + 1] /\ c[j + 1][k + 1]) => c[i + 1][k + 1]
            /\ \A i, j \in N : c[i + 1][j + 1] <=> j \in ReachFrom(storage, {i})

\* the returned matrix joins two nodes that no single edge joins and leaves
\* another pair apart
W4_TwoStepPathFound ==
    /\ pc = "returned"
    /\ \E i, j \in NodeIds(storage) :
        /\ i # j
        /\ EdgesBetween(storage, i, j) = <<>>
        /\ Unwrap(ret).closure[i + 1][j + 1]
    /\ \E i, j \in NodeIds(storage) : ~Unwrap(ret).closure[i + 1][j + 1]

-----------------------------------------------------------------------------
(* hierholzer_undirected (algorithms/hierholzer.rs) *)

MaxHiNodes == 3         \* node keys offered to the graph
MaxHiEdges == 3         \* undirected edges of the graph

\* the adjacency lists and degrees: every edge record is pushed to the list
\* of both its endpoints and counted at both
RECURSIVE AdjacencyFrom(_, _, _)
AdjacencyFrom(st, e, d) ==
    IF e >= Size(st) THEN d
    ELSE LET u == Endpoints(st, e)[1]
             v == Endpoints(st, e)[2]
             a1 == [d.adjacency_list EXCEPT ![u] = Append(@, e)]
             a2 == [a1 EXCEPT ![v] = Append(@, e)]
             g1 == [d.degree EXCEPT ![u] = @ + 1]
             g2 == [g1 EXCEPT ![v] = @ + 1]
         IN  AdjacencyFrom(st, e + 1, [adjacency_list |-> a2, degree |-> g2])

Adjacency(st) ==
    AdjacencyFrom(st, 0, [adjacency_list |-> [v \in NodeIds(st) |-> <<>>],
                          degree |-> [v \in NodeIds(st) |-> 0]])

\* the loop over the nodes from id on: the first node of odd degree ends it
\* with an error, else the first node of positive degree is the start
RECURSIVE StartNodeFrom(_, _, _, _)
StartNodeFrom(st, degree, id, start_node) ==
    IF id >= Order(st) THEN [err |-> None, start_node |-> start_node]
    ELSE IF degree[id] % 2 # 0
    THEN [err |-> Some(<<"Graph is not Eulerian: Node has odd degree",
                         NodeKey(st, id), degree[id]>>),
          start_node |-> start_node]
    ELSE StartNodeFrom(st, degree, id + 1,
            IF degree[id] > 0 /\ ~IsSome(start_node) THEN Some(id) ELSE start_node)

\* edges.pop() until an unused edge comes off the list
RECURSIVE PopUnused(_, _)
PopUnused(edges, used_edges) ==
    IF edges = <<>> THEN [edges |-> edges, next_edge |-> None]
    ELSE LET eid == edges[Len(edges)]
             rest == SubSeq(edges, 1, Len(edges) - 1)
         IN  IF eid \notin used_edges
             THEN [edges |-> rest, next_edge |-> Some(eid)]
             ELSE PopUnused(rest, used_edges)

\* one iteration of the walk
HierholzerIteration(st, d) ==
    LET u == d.curr_path[Len(d.curr_path)]
        p == PopUnused(d.adjacency_list[u], d.used_edges)
        d1 == [d EXCEPT !.adjacency_list[u] = p.edges]
    IN  IF IsSome(p.next_edge)
        THEN LET eid == Unwrap(p.next_edge)
                 v1 == Endpoints(st, eid)[1]
                 v2 == Endpoints(st, eid)[2]
                 v == IF v1 = u THEN v2 ELSE v1
             IN  [d1 EXCEPT !.used_edges = @ \cup {eid},
                            !.curr_path = Append(@, v)]
        ELSE [d1 EXCEPT !.circuit = Append(@, u),
                        !.curr_path = SubSeq(@, 1, Len(@) - 1)]

Reverse(s) == [i \in 1..Len(s) |-> s[Len(s) + 1 - i]]

InitHierholzer ==
    /\ interner = NewInterner
    /\ call = <<>>
    /\ ret = None
    /\ accepted = 0
    /\ storage = NewStorage
    /\ kind \in Kinds
    /\ directed = FALSE
    /\ pc = "build"
    /\ alg = <<>>

\* hierholzer_undirected up to its walk
HierholzerCall ==
    /\ pc = "build"
    /\ call' = <<"hierholzer_undirected">>
    /\ LET a == Adjacency(storage)
           s == StartNodeFrom(storage, a.degree, 0, None)
       IN  IF Size(storage) = 0
           THEN /\ ret' = Some(<<"Ok", IF Order(storage) > 0
                                       THEN <<NodeKey(storage, 0)>> ELSE <<>>>>)
                /\ pc' = "returned"
                /\ alg' = <<>>
           ELSE IF IsSome(s.err)
           THEN /\ ret' = Some(Err(Unwrap(s.err)))
                /\ pc' = "returned"
                /\ alg' = <<>>
           ELSE IF ~IsSome(s.start_node)
           THEN /\ ret' = Some(<<"Ok", <<>>>>)
                /\ pc' = "returned"
                /\ alg' = <<>>
           ELSE /\ ret' = None
                /\ pc' = "hierholzer"
                /\ alg' = [adjacency_list |-> a.adjacency_list,
                           used_edges |-> {},
                           circuit |-> <<>>,
                           curr_path |-> <<Unwrap(s.start_node)>>]
    /\ UNCHANGED <<interner, accepted, varsG>>

HierholzerStep ==
    /\ pc = "hierholzer"
    /\ alg.curr_path # <<>>
    /\ alg' = HierholzerIteration(storage, alg)
    /\ UNCHANGED <<interner, varsCall, varsG, pc>>

\* the return with the length check left out: the circuit is returned whatever
\* its length
HierholzerReturnUnchecked ==
    /\ pc = "hierholzer"
    /\ alg.curr_path = <<>>
    /\ ret' = Some(<<"Ok", [i \in 1..Len(alg.circuit) |->
                                NodeKey(storage, Reverse(alg.circuit)[i])]>>)
    /\ pc' = "returned"
    /\ UNCHANGED <<interner, call, accepted, varsG, alg>>

HierholzerReturn ==
    /\ pc = "hierholzer"
    /\ alg.curr_path = <<>>
    /\ ret' = IF Len(alg.circuit) # Size(storage) + 1
              THEN Some(Err("Graph has disconnected components with edges."))
              ELSE Some(<<"Ok", [i \in 1..Len(alg.circuit) |->
                                    NodeKey(storage, Reverse(alg.circuit)[i])]>>)
    /\ pc' = "returned"
    /\ UNCHANGED <<interner, call, accepted, varsG, alg>>

NextHierholzer ==
    \/ \E key \in 1..MaxHiNodes : BuildNode(key)
    \/ \E a_key, b_key \in 1..MaxHiNodes : BuildEdge(a_key, b_key, None, MaxHiEdges)
    \/ HierholzerCall
    \/ HierholzerStep
    \/ HierholzerReturn

SpecHierholzer == InitHierholzer /\ [][NextHierholzer]_vars

\* the undirected edges of a wrapper-built graph: the records of even id,
\* each followed by its reverse
UndirectedEdges(st) == {e \in EdgeIds(st) : e % 2 = 0}

\* the number of undirected edges at v, a self-loop counted twice
EdgeDegree(st, v) ==
    Cardinality({e \in UndirectedEdges(st) : Endpoints(st, e)[1] = v})
    + Cardinality({e \in UndirectedEdges(st) : Endpoints(st, e)[2] = v})

\* every node has even degree and all edges lie in one component
EulerianInput(st) ==
    /\ \A v \in NodeIds(st) : EdgeDegree(st, v) % 2 = 0
    /\ \A e1, e2 \in EdgeIds(st) :
        Endpoints(st, e2)[1] \in Grow({Endpoints(st, e1)[1]}, LinksOf(st, EdgeIds(st)))

\* how often the walk p of node keys goes between the nodes a and b
Traversals(st, p, a, b) ==
    Cardinality({i \in 1..(Len(p) - 1) :
        LET x == Unwrap(NodeIdOf(st, p[i]))
            y == Unwrap(NodeIdOf(st, p[i + 1]))
        IN  <<x, y>> = <<a, b>> \/ <<x, y>> = <<b, a>>})

(* C5: on an undirected graph with at least one edge, built through the    *)
(* wrapper, in which every node has even degree and all edges lie in one   *)
(* component, hierholzer_undirected returns Ok with a walk whose first and *)
(* last keys are equal, whose consecutive keys are joined by an edge, and  *)
(* which goes along every undirected edge exactly once, so that it has     *)
(* number of undirected edges + 1 entries.                                 *)
C5_HierholzerCircuit ==
    (pc = "returned" /\ Size(storage) > 0 /\ EulerianInput(storage)) =>
        LET r == Unwrap(ret)
            p == r[2]
        IN  /\ IsOk(r)
            /\ Len(p) = Cardinality(UndirectedEdges(storage)) + 1
            /\ p[1] = p[Len(p)]
            /\ \A a, b \in NodeIds(storage) :
                Traversals(storage, p, a, b) =
                    Cardinality({e \in UndirectedEdges(storage) :
                        Endpoints(storage, e) \in {<<a, b>>, <<b, a>>}})

-----------------------------------------------------------------------------
(* tree_to_prufer and prufer_to_tree (algorithms/prufer.rs) *)

MaxPrNodes == 4         \* node keys offered to the tree
MaxPrEdges == 3         \* edges of the tree

\* BinaryHeap<Reverse<K>>: the keys it holds, as a sequence; pop takes the
\* least key
HeapMin(heap) == MinOf(Range(heap))
HeapPop(heap) ==
    LET i == CHOOSE j \in 1..Len(heap) :
                heap[j] = HeapMin(heap) /\ \A k \in 1..(j - 1) : heap[k] # HeapMin(heap)
    IN  SubSeq(heap, 1, i - 1) \o SubSeq(heap, i + 1, Len(heap))

\* the locals of tree_to_prufer before its main loop
RECURSIVE PruferDegreesFrom(_, _, _)
PruferDegreesFrom(st, i, d) ==
    IF i >= Order(st) THEN d
    ELSE LET degree == Cardinality(Range(Neighborhood(st, i)))
         IN  PruferDegreesFrom(st, i + 1,
                [d EXCEPT !.degrees = (i :> degree) @@ @,
                          !.min_heap = IF degree = 1
                                       THEN Append(@, NodeKey(st, i)) ELSE @])

PruferLocals(st) ==
    PruferDegreesFrom(st, 0, [n |-> Order(st), degrees |-> <<>>, removed |-> {},
                              min_heap |-> <<>>, prufer_sequence |-> <<>>,
                              round |-> 0, msg |-> ""])

\* a search that takes the first neighbor, removed or not
FirstNeighbor(neigh, i, removed) ==
    IF i > Len(neigh) THEN None ELSE Some(neigh[i])

\* the first neighbor of the leaf that has not been removed
RECURSIVE FirstLiveNeighbor(_, _, _)
FirstLiveNeighbor(neigh, i, removed) ==
    IF i > Len(neigh) THEN None
    ELSE IF neigh[i] \notin removed THEN Some(neigh[i])
    ELSE FirstLiveNeighbor(neigh, i + 1, removed)

\* usize::saturating_sub(1)
SaturatingDec(x) == IF x = 0 THEN 0 ELSE x - 1

\* one iteration of the main loop of tree_to_prufer
PruferIteration(st, d) ==
    IF d.min_heap = <<>>
    THEN [d EXCEPT !.msg = "Graph is not a tree or disconnected"]
    ELSE LET leaf_key == HeapMin(d.min_heap)
             heap1 == HeapPop(d.min_heap)
             leaf_id == Unwrap(NodeIdOf(st, leaf_key))
             removed == d.removed \cup {leaf_id}
             neighbor_id == FirstLiveNeighbor(Neighborhood(st, leaf_id), 1, removed)
         IN  IF ~IsSome(neighbor_id)
             THEN [d EXCEPT !.min_heap = heap1, !.removed = removed,
                            !.msg = "Leaf must have a neighbor"]
             ELSE LET nb == Unwrap(neighbor_id)
                      nd == SaturatingDec(d.degrees[nb])
                  IN  [d EXCEPT !.removed = removed,
                                !.prufer_sequence = Append(@, NodeKey(st, nb)),
                                !.degrees[nb] = nd,
                                !.min_heap = IF nd = 1
                                             THEN Append(heap1, NodeKey(st, nb))
                                             ELSE heap1,
                                !.round = @ + 1]

\* def.add_node(i, ()) for i in 1..=n
RECURSIVE AddNodesTo(_, _, _)
AddNodesTo(st, i, n) ==
    IF i > n THEN st ELSE AddNodesTo(AddNode(st, i, "p"), i + 1, n)

\* the degrees vector of prufer_to_tree: 1 plus the occurrences in the
\* sequence; index 0 is not used
PruferDegrees(sequence, n) ==
    [i \in 0..n |-> 1 + Cardinality({j \in 1..Len(sequence) : sequence[j] = i})]

\* the leaves 1..=n pushed on the heap in order
RECURSIVE LeavesFrom(_, _, _)
LeavesFrom(degrees, i, n) ==
    IF i > n THEN <<>>
    ELSE (IF degrees[i] = 1 THEN <<i>> ELSE <<>>) \o LeavesFrom(degrees, i + 1, n)

\* the locals of prufer_to_tree before its main loop
DecodeLocals(sequence) ==
    LET n == Len(sequence) + 2
        def == AddNodesTo(NewStorage, 1, n)
    IN  IF n = 2
        THEN [sequence |-> sequence, n |-> n,
              def |-> AddEdgeByKey(def, 1, 2, "p", "p", "m", None),
              degrees |-> <<>>, min_heap |-> <<>>, next |-> 1, done |-> TRUE, msg |-> ""]
        ELSE IF \E j \in 1..Len(sequence) : sequence[j] < 1 \/ sequence[j] > n
        THEN [sequence |-> sequence, n |-> n, def |-> def,
              degrees |-> <<>>, min_heap |-> <<>>, next |-> 1, done |-> FALSE,
              msg |-> "Invalid Prufer sequence: node index out of bounds"]
        ELSE [sequence |-> sequence, n |-> n, def |-> def,
              degrees |-> PruferDegrees(sequence, n),
              min_heap |-> LeavesFrom(PruferDegrees(sequence, n), 1, n),
              next |-> 1, done |-> FALSE, msg |-> ""]

\* the iteration without the push of v when its degree falls to 1
DecodeIterationNoPush(d) ==
    IF d.min_heap = <<>> THEN [d EXCEPT !.msg = "Heap should not be empty"]
    ELSE LET v == d.sequence[d.next]
             u == HeapMin(d.min_heap)
         IN  [d EXCEPT !.def = AddEdgeByKey(@, u, v, "p", "p", "m", None),
                       !.degrees[v] = @ - 1,
                       !.min_heap = HeapPop(d.min_heap),
                       !.next = @ + 1]

\* one iteration of the main loop of prufer_to_tree
DecodeIteration(d) ==
    IF d.min_heap = <<>> THEN [d EXCEPT !.msg = "Heap should not be empty"]
    ELSE LET v == d.sequence[d.next]
             u == HeapMin(d.min_heap)
             heap1 == HeapPop(d.min_heap)
         IN  [d EXCEPT !.def = AddEdgeByKey(@, u, v, "p", "p", "m", None),
                       !.degrees[v] = @ - 1,
                       !.min_heap = IF d.degrees[v] - 1 = 1 THEN Append(heap1, v) ELSE heap1,
                       !.next = @ + 1]

\* the last edge of prufer_to_tree, between the two keys left on the heap
DecodeLastEdge(d) ==
    IF Len(d.min_heap) < 2
    THEN [d EXCEPT !.msg = "unwrap on an empty heap"]
    ELSE LET u == HeapMin(d.min_heap)
             v == HeapMin(HeapPop(d.min_heap))
         IN  [d EXCEPT !.def = AddEdgeByKey(@, u, v, "p", "p", "m", None),
                       !.min_heap = HeapPop(HeapPop(@)),
                       !.done = TRUE]

\* prufer_to_tree run to its end
RECURSIVE DecodeRun(_)
DecodeRun(d) ==
    IF d.msg # "" \/ d.done THEN d
    ELSE IF d.next <= Len(d.sequence) THEN DecodeRun(DecodeIteration(d))
    ELSE DecodeLastEdge(d)

PruferToTree(sequence) == DecodeRun(DecodeLocals(sequence))

\* prufer_to_tree_example: the tree of the sequence 4, 3, 1, 3, 1
PruferExample == PruferToTree(<<4, 3, 1, 3, 1>>).def

InitPrufer ==
    /\ interner = NewInterner
    /\ call = <<>>
    /\ ret = None
    /\ accepted = 0
    /\ \/ storage = NewStorage /\ directed \in BOOLEAN
       \/ storage = PruferExample /\ directed = TRUE
    /\ kind = "Simple"
    /\ pc = "build"
    /\ alg = <<>>

\* tree_to_prufer(&graph) up to its main loop
TreeToPruferCall ==
    /\ pc = "build"
    /\ call' = <<"tree_to_prufer">>
    /\ IF Order(storage) < 2
       THEN /\ ret' = Some(<<>>)
            /\ pc' = "encoded"
            /\ alg' = <<>>
       ELSE /\ ret' = None
            /\ pc' = "tree_to_prufer"
            /\ alg' = PruferLocals(storage)
    /\ UNCHANGED <<interner, accepted, varsG>>

TreeToPruferStep ==
    /\ pc = "tree_to_prufer"
    /\ alg.round < alg.n - 2
    /\ alg' = PruferIteration(storage, alg)
    /\ pc' = IF alg'.msg # "" THEN "aborted" ELSE "tree_to_prufer"
    /\ UNCHANGED <<interner, varsCall, varsG>>

TreeToPruferReturn ==
    /\ pc = "tree_to_prufer"
    /\ alg.round >= alg.n - 2
    /\ ret' = Some(alg.prufer_sequence)
    /\ pc' = "encoded"
    /\ UNCHANGED <<interner, call, accepted, varsG, alg>>

\* prufer_to_tree on the sequence just returned, up to its main loop
PruferToTreeCall ==
    /\ pc = "encoded"
    /\ call' = <<"prufer_to_tree", Unwrap(ret)>>
    /\ ret' = None
    /\ alg' = DecodeLocals(Unwrap(ret))
    /\ pc' = IF alg'.msg # "" THEN "aborted" ELSE "prufer_to_tree"
    /\ UNCHANGED <<interner, accepted, varsG>>

PruferToTreeStep ==
    /\ pc = "prufer_to_tree"
    /\ ~alg.done
    /\ alg' = IF alg.next <= Len(alg.sequence)
              THEN DecodeIteration(alg) ELSE DecodeLastEdge(alg)
    /\ pc' = IF alg'.msg # "" THEN "aborted" ELSE "prufer_to_tree"
    /\ UNCHANGED <<interner, varsCall, varsG>>

PruferToTreeReturn ==
    /\ pc = "prufer_to_tree"
    /\ alg.done
    /\ ret' = Some(alg.def)
    /\ pc' = "decoded"
    /\ UNCHANGED <<interner, call, accepted, varsG, alg>>

NextPrufer ==
    \/ \E from_key, to_key \in 1..MaxPrNodes : BuildArc(from_key, to_key, None, MaxPrEdges)
    \/ \E a_key, b_key \in 1..MaxPrNodes : BuildEdge(a_key, b_key, None, MaxPrEdges)
    \/ TreeToPruferCall
    \/ TreeToPruferStep
    \/ TreeToPruferReturn
    \/ PruferToTreeCall
    \/ PruferToTreeStep
    \/ PruferToTreeReturn

SpecPrufer == InitPrufer /\ [][NextPrufer]_vars

\* the undirected edges of a graph, as sets of node keys
UEdgeSet(st) ==
    {{NodeKey(st, Endpoints(st, e)[1]), NodeKey(st, Endpoints(st, e)[2])} :
        e \in EdgeIds(st)}

\* a tree on n >= 2 nodes labelled 1..n
IsLabeledTree(st) ==
    /\ Order(st) >= 2
    /\ {NodeKey(st, v) : v \in NodeIds(st)} = 1..Order(st)
    /\ \A e \in EdgeIds(st) : Endpoints(st, e)[1] # Endpoints(st, e)[2]
    /\ Cardinality(UEdgeSet(st)) = Order(st) - 1
    /\ Cardinality(Components(NodeIds(st), LinksOf(st, EdgeIds(st)))) = 1

(* C6: for every labelled tree T on n >= 2 nodes with the labels 1..n,     *)
(* tree_to_prufer(T) has length n - 2 and prufer_to_tree of it has exactly *)
(* the undirected edges of T; neither call aborts.                         *)
C6_PruferRoundTrip ==
    IsLabeledTree(storage) =>
        /\ pc # "aborted"
        /\ pc = "encoded" => Len(Unwrap(ret)) = Order(storage) - 2
        /\ pc = "decoded" =>
            /\ Len(alg.sequence) = Order(storage) - 2
            /\ UEdgeSet(Unwrap(ret)) = UEdgeSet(storage)

\* a path on four nodes whose ids are not in the order of its labels has
\* been encoded to two different labels and decoded again
W6_PathRoundTrip ==
    /\ pc = "decoded"
    /\ IsLabeledTree(storage)
    /\ Order(storage) = 4
    /\ \E v \in NodeIds(storage) : NodeKey(storage, v) # v + 1
    /\ alg.sequence[1] # alg.sequence[2]

-----------------------------------------------------------------------------
(* chromatic_polynomial (algorithms/colorings.rs) *)

MaxChNodes == 4         \* node keys offered to the graph
MaxChEdges == 3         \* undirected edges of the graph
Methods == {"RemoveEdges", "AddEdges", "Auto"}

\* Polynomial: coeffs[i] of the source is element i + 1 of the sequence
RECURSIVE PolyNormalize(_)
PolyNormalize(c) ==
    IF Len(c) > 1 /\ c[Len(c)] = 0 THEN PolyNormalize(SubSeq(c, 1, Len(c) - 1)) ELSE c

PolyOne == <<1>>
PolyZero == <<0>>
\* a monomial one power short: vec![0; power] with the last entry set
FromMonomialShort(power, coeff) == [i \in 1..power |-> IF i = power THEN coeff ELSE 0]
FromMonomial(power, coeff) == [i \in 1..(power + 1) |-> IF i = power + 1 THEN coeff ELSE 0]
Coeff(c, i) == IF i <= Len(c) THEN c[i] ELSE 0
MaxLen(a, b) == IF Len(a) >= Len(b) THEN Len(a) ELSE Len(b)

PolyAdd(a, b) == PolyNormalize([i \in 1..MaxLen(a, b) |-> Coeff(a, i) + Coeff(b, i)])
PolySub(a, b) == PolyNormalize([i \in 1..MaxLen(a, b) |-> Coeff(a, i) - Coeff(b, i)])
PolyMul(a, b) ==
    IF a = <<>> \/ b = <<>> THEN PolyZero
    ELSE PolyNormalize(
            [k \in 1..(Len(a) + Len(b) - 1) |->
                SumOver({i \in 1..Len(a) : k + 1 - i \in 1..Len(b)},
                        [i \in 1..Len(a) |-> a[i] * Coeff(b, k + 1 - i)])])

\* WorkingGraph::from_graph
FromGraph(st) ==
    [n |-> Order(st),
     adj |-> [i \in 1..Order(st) |-> [j \in 1..Order(st) |->
                /\ i # j
                /\ \/ (j - 1) \in Range(Neighborhood(st, i - 1))
                   \/ (i - 1) \in Range(Neighborhood(st, j - 1))]]]

\* edge_count
EdgeCount(g) ==
    Cardinality({p \in (0..(g.n - 1)) \X (0..(g.n - 1)) :
                    p[1] < p[2] /\ g.adj[p[1] + 1][p[2] + 1]})

\* the first pair (i, j), i < j, in row order whose cell has the value b
FirstPair(g, b) ==
    LET S == {p \in (0..(g.n - 1)) \X (0..(g.n - 1)) :
                p[1] < p[2] /\ g.adj[p[1] + 1][p[2] + 1] = b}
    IN  IF S = {} THEN None
        ELSE Some(CHOOSE p \in S : \A q \in S :
                    p[1] < q[1] \/ (p[1] = q[1] /\ p[2] <= q[2]))

FindEdge(g) == FirstPair(g, TRUE)
FindNonEdge(g) == FirstPair(g, FALSE)

\* remove_edge and add_edge
SetEdge(g, u, v, b) ==
    [g EXCEPT !.adj[u + 1][v + 1] = b, !.adj[v + 1][u + 1] = b]

\* a contraction that drops v without handing its edges to u
ContractDrop(g, u, v) ==
    LET old(k) == IF k < v THEN k ELSE k + 1
    IN  [n |-> g.n - 1,
         adj |-> [a \in 1..(g.n - 1) |-> [b \in 1..(g.n - 1) |->
                    g.adj[old(a - 1) + 1][old(b - 1) + 1]]]]

\* contract: v is merged into u and removed; new index k is old index k
\* below v and old index k + 1 from v on
Contract(g, u, v) ==
    LET old(k) == IF k < v THEN k ELSE k + 1
        cell(i, j) ==
            IF i = u /\ j = u THEN FALSE
            ELSE \/ g.adj[i + 1][j + 1]
                 \/ i = u /\ g.adj[v + 1][j + 1]
                 \/ j = u /\ g.adj[i + 1][v + 1]
    IN  [n |-> g.n - 1,
         adj |-> [a \in 1..(g.n - 1) |-> [b \in 1..(g.n - 1) |->
                    cell(old(a - 1), old(b - 1))]]]

\* compute_poly_remove: P(G) = P(G - e) - P(G / e), x^n without edges
RECURSIVE ComputePolyRemove(_)
ComputePolyRemove(g) ==
    LET e == FindEdge(g)
        u == Unwrap(e)[1]
        v == Unwrap(e)[2]
    IN  IF IsSome(e)
        THEN PolySub(ComputePolyRemove(SetEdge(g, u, v, FALSE)),
                     ComputePolyRemove(Contract(g, u, v)))
        ELSE FromMonomial(g.n, 1)

\* x (x + 1) ... (x + n - 1): the factors with the sign of i lost
RECURSIVE RisingFactorial(_, _, _)
RisingFactorial(poly, i, n) ==
    IF i >= n THEN poly ELSE RisingFactorial(PolyMul(poly, <<i, 1>>), i + 1, n)

\* x (x - 1) ... (x - n + 1), the factors multiplied in from i on
RECURSIVE FallingFactorial(_, _, _)
FallingFactorial(poly, i, n) ==
    IF i >= n THEN poly ELSE FallingFactorial(PolyMul(poly, <<-i, 1>>), i + 1, n)

\* compute_poly_add: P(G) = P(G + e) + P(G / e), the falling factorial on a
\* complete graph
RECURSIVE ComputePolyAdd(_)
ComputePolyAdd(g) ==
    LET e == FindNonEdge(g)
        u == Unwrap(e)[1]
        v == Unwrap(e)[2]
    IN  IF IsSome(e)
        THEN PolyAdd(ComputePolyAdd(SetEdge(g, u, v, TRUE)),
                     ComputePolyAdd(Contract(g, u, v)))
        ELSE FallingFactorial(PolyOne, 0, g.n)

\* density > 0.6, the density being edge_count / (n (n - 1) / 2), or 1.0
\* when n <= 1
Dense(g) ==
    IF g.n > 1 THEN 5 * EdgeCount(g) > 3 * ((g.n * (g.n - 1)) \div 2) ELSE TRUE

ResolvedMethod(g, method) ==
    IF method = "Auto" THEN (IF Dense(g) THEN "AddEdges" ELSE "RemoveEdges") ELSE method

ChromaticPolynomial(st, method) ==
    LET wg == FromGraph(st)
    IN  IF ResolvedMethod(wg, method) = "RemoveEdges"
        THEN ComputePolyRemove(wg)
        ELSE ComputePolyAdd(wg)

\* the edges of the complete graph on the keys 1..5, the cycle first
K5Edges ==
    << <<1, 2, None>>, <<2, 3, None>>, <<3, 4, None>>, <<4, 5, None>>,
       <<5, 1, None>>, <<1, 3, None>>, <<2, 4, None>>, <<3, 5, None>>,
       <<4, 1, None>>, <<5, 2, None>> >>

\* the graphs from_edges builds from the first 4 to 10 of these edges: from
\* the path on five nodes over the cycle to the complete graph
DenseGraphs == {FromEdges(FALSE, SubSeq(K5Edges, 1, k)).st : k \in 4..Len(K5Edges)}

InitChromatic ==
    /\ interner = NewInterner
    /\ call = <<>>
    /\ ret = None
    /\ accepted = 0
    /\ storage \in {NewStorage} \cup DenseGraphs
    /\ kind = "Pseudo"
    /\ directed = FALSE
    /\ pc = "build"
    /\ alg = [m \in Methods |-> None]

\* chromatic_polynomial(&graph, method); the graph is not changed afterwards
ChromaticPolynomialCall(method) ==
    /\ pc \in {"build", "chromatic"}
    /\ ~IsSome(alg[method])
    /\ call' = <<"chromatic_polynomial", method>>
    /\ ret' = Some(ChromaticPolynomial(storage, method))
    /\ alg' = [alg EXCEPT ![method] = ret']
    /\ pc' = "chromatic"
    /\ UNCHANGED <<interner, accepted, varsG>>

NextChromatic ==
    \/ \E a_key, b_key \in 1..MaxChNodes : BuildEdge(a_key, b_key, None, MaxChEdges)
    \/ \E method \in Methods : ChromaticPolynomialCall(method)

SpecChromatic == InitChromatic /\ [][NextChromatic]_vars

(* C7: on every undirected graph chromatic_polynomial returns the same     *)
(* coefficient vector with the method RemoveEdges and with the method      *)
(* AddEdges, so that the result of Auto is that vector on either side of   *)
(* the density threshold.                                                  *)
C7_MethodsAgree ==
    pc = "chromatic" =>
        \A m1, m2 \in Methods :
            (IsSome(alg[m1]) /\ IsSome(alg[m2])) => alg[m1] = alg[m2]

\* the three methods have been run on the complete graph on five nodes, with
\* the result x (x - 1) (x - 2) (x - 3) (x - 4)
W7_CompleteGraphAllMethods ==
    /\ pc = "chromatic"
    /\ \A m \in Methods : IsSome(alg[m])
    /\ EdgeCount(FromGraph(storage)) = 10
    /\ alg["RemoveEdges"] = Some(<<0, 24, -50, 35, -10, 1>>)

-----------------------------------------------------------------------------
(* The storage backends (storage/*.rs).  The four backends share the node  *)
(* interner and the edge-record vector of GraphDefinition and differ in    *)
(* the adjacency index kept beside them.                                   *)

MaxStNodes == 3         \* node keys offered to the backends
MaxStEdges == 2         \* edge records a backend may hold

Backends == {"GraphDefinition", "AdjacencyList", "AdjacencyListIn", "AdjacencyMatrix"}

\* Vec::resize
Resize(v, len, fill) ==
    IF len <= Len(v) THEN SubSeq(v, 1, len)
    ELSE v \o [i \in 1..(len - Len(v)) |-> fill]

\* IndexSet: the first occurrence of each element, in order
RECURSIVE IndexSetOf(_)
IndexSetOf(s) ==
    IF s = <<>> THEN <<>>
    ELSE LET front == IndexSetOf(SubSeq(s, 1, Len(s) - 1))
         IN  IF s[Len(s)] \in Range(front) THEN front ELSE Append(front, s[Len(s)])

\* grow an adjacency vector so that it has a slot for id
GrowFor(adj, id) == IF Len(adj) <= id THEN Resize(adj, id + 1, <<>>) ELSE adj

(* AdjacencyList (adjacency_list.rs): out_adj[v] holds the ids of the      *)
(* records leaving v                                                       *)

AlNew == [nodes |-> NewInterner, edges |-> <<>>, out_adj |-> <<>>]

AlAddNode(st, key, data) ==
    [st EXCEPT !.nodes = Intern(@, key, data),
               !.out_adj = GrowFor(@, InternId(st.nodes, key))]

AlAddEdgeById(st, from, to, meta, weight) ==
    [st EXCEPT !.out_adj = [GrowFor(@, from) EXCEPT ![from + 1] = Append(@, Size(st))],
               !.edges = Append(@, EdgeRecord(from, to, meta, weight))]

AlClearEdges(st) ==
    [st EXCEPT !.edges = <<>>, !.out_adj = [i \in 1..Len(@) |-> <<>>]]

AlNeighborhood(st, v) == IF v >= Order(st) THEN <<>> ELSE Neighborhood(st, v)
AlPredecessors(st, v) == IF v >= Order(st) THEN <<>> ELSE StoragePredecessors(st, v)
AlSuccessors(st, v) ==
    IF v >= Order(st) \/ v >= Len(st.out_adj) THEN <<>>
    ELSE [i \in 1..Len(st.out_adj[v + 1]) |-> st.edges[st.out_adj[v + 1][i] + 1].to]

(* AdjacencyListIn (adjacency_list_in.rs): in_adj[v] also holds the ids of *)
(* the records entering v                                                  *)

AliNew == [nodes |-> NewInterner, edges |-> <<>>, out_adj |-> <<>>, in_adj |-> <<>>]

AliAddNode(st, key, data) ==
    [st EXCEPT !.nodes = Intern(@, key, data),
               !.out_adj = GrowFor(@, InternId(st.nodes, key)),
               !.in_adj = GrowFor(@, InternId(st.nodes, key))]

AliAddEdgeById(st, from, to, meta, weight) ==
    [st EXCEPT !.out_adj = [GrowFor(@, from) EXCEPT ![from + 1] = Append(@, Size(st))],
               !.in_adj = [GrowFor(@, to) EXCEPT ![to + 1] = Append(@, Size(st))],
               !.edges = Append(@, EdgeRecord(from, to, meta, weight))]

AliClearEdges(st) ==
    [st EXCEPT !.edges = <<>>,
               !.out_adj = [i \in 1..Len(@) |-> <<>>],
               !.in_adj = [i \in 1..Len(@) |-> <<>>]]

\* the ids of out_adj[from] whose record ends in to
AliEdgesBetween(st, from, to) ==
    IF from >= Len(st.out_adj) THEN <<>>
    ELSE SelectSeq(st.out_adj[from + 1], LAMBDA eid : st.edges[eid + 1].to = to)

AliSuccessors(st, v) ==
    IF v >= Len(st.out_adj) THEN <<>>
    ELSE [i \in 1..Len(st.out_adj[v + 1]) |-> st.edges[st.out_adj[v + 1][i] + 1].to]

AliPredecessors(st, v) ==
    IF v >= Len(st.in_adj) THEN <<>>
    ELSE [i \in 1..Len(st.in_adj[v + 1]) |-> st.edges[st.in_adj[v + 1][i] + 1].from]

\* the heads of the records leaving v, then the tails of those entering it,
\* collected in an IndexSet
AliNeighborhood(st, v) == IndexSetOf(AliSuccessors(st, v) \o AliPredecessors(st, v))

(* AdjacencyMatrix (adjacency_matrix.rs): data is the flat n x n vector of *)
(* cells, cell (r, c) at index r * n + c                                   *)

AmNew(n) == [n |-> n, nodes |-> NewInterner, edges |-> <<>>,
             data |-> [i \in 1..(n * n) |-> None]]

Idx(st, r, c) == r * st.n + c

\* the content of cell (r, c)
Cell(st, r, c) == st.data[Idx(st, r, c) + 1]

\* add_node: the flat vector is lengthened when the order grows; the cells
\* already set keep their flat index
AmAddNode(st, key, data) ==
    LET nodes == Intern(st.nodes, key, data)
        n_new == InternerLen(nodes)
    IN  IF n_new > st.n
        THEN [st EXCEPT !.nodes = nodes, !.data = Resize(@, n_new * n_new, None),
                        !.n = n_new]
        ELSE [st EXCEPT !.nodes = nodes]

AmAddEdgeById(st, from, to, meta, weight) ==
    LET grown == IF st.n <= from \/ st.n <= to
                 THEN [st EXCEPT !.data = Resize(@, Order(st) * Order(st), None),
                                 !.n = Order(st)]
                 ELSE st
    IN  [grown EXCEPT !.edges = Append(@, EdgeRecord(from, to, meta, weight)),
                      !.data[Idx(grown, from, to) + 1] = Some(Size(st))]

AmClearEdges(st) ==
    [st EXCEPT !.edges = <<>>, !.data = [i \in 1..Len(@) |-> None]]

AmEdgesBetween(st, from, to) == Cell(st, from, to)

\* the column indices 0..n-1 filtered through the cells of row v
RECURSIVE AmSuccessorsFrom(_, _, _)
AmSuccessorsFrom(st, v, u) ==
    IF u >= st.n THEN <<>>
    ELSE (IF IsSome(Cell(st, v, u)) THEN <<st.edges[Unwrap(Cell(st, v, u)) + 1].to>>
          ELSE <<>>) \o AmSuccessorsFrom(st, v, u + 1)

AmSuccessors(st, v) == IF v >= st.n THEN <<>> ELSE AmSuccessorsFrom(st, v, 0)

RECURSIVE AmPredecessorsFrom(_, _, _)
AmPredecessorsFrom(st, v, u) ==
    IF u >= st.n THEN <<>>
    ELSE (IF IsSome(Cell(st, u, v)) THEN <<st.edges[Unwrap(Cell(st, u, v)) + 1].from>>
          ELSE <<>>) \o AmPredecessorsFrom(st, v, u + 1)

AmPredecessors(st, v) == IF v >= st.n THEN <<>> ELSE AmPredecessorsFrom(st, v, 0)

AmNeighborhood(st, v) ==
    IF v >= st.n THEN <<>> ELSE IndexSetOf(AmSuccessors(st, v) \o AmPredecessors(st, v))

(* Construction and conversion of backends.  A backend is named by its     *)
(* type; StorageRepresentation and MutableStorage dispatch on it.          *)

WithNodeCapacity(b, capacity) ==
    CASE b = "GraphDefinition" -> NewStorage
      [] b = "AdjacencyList" -> AlNew
      [] b = "AdjacencyListIn" -> AliNew
      [] b = "AdjacencyMatrix" -> AmNew(capacity)

BackendAddNode(b, st, key, data) ==
    CASE b = "GraphDefinition" -> AddNode(st, key, data)
      [] b = "AdjacencyList" -> AlAddNode(st, key, data)
      [] b = "AdjacencyListIn" -> AliAddNode(st, key, data)
      [] b = "AdjacencyMatrix" -> AmAddNode(st, key, data)

BackendAddEdgeById(b, st, from, to, meta, weight) ==
    CASE b = "GraphDefinition" -> AddEdgeById(st, from, to, meta, weight)
      [] b = "AdjacencyList" -> AlAddEdgeById(st, from, to, meta, weight)
      [] b = "AdjacencyListIn" -> AliAddEdgeById(st, from, to, meta, weight)
      [] b = "AdjacencyMatrix" -> AmAddEdgeById(st, from, to, meta, weight)

\* add_edge_by_key: both keys are added as nodes, then the edge by id
BackendAddEdgeByKey(b, st, from_key, to_key, from_data, to_data, meta, weight) ==
    LET s1 == BackendAddNode(b, st, from_key, from_data)
        s2 == BackendAddNode(b, s1, to_key, to_data)
    IN  BackendAddEdgeById(b, s2, InternId(st.nodes, from_key),
                           InternId(s1.nodes, to_key), meta, weight)

BackendClearEdges(b, st) ==
    CASE b = "GraphDefinition" -> ClearEdges(st)
      [] b = "AdjacencyList" -> AlClearEdges(st)
      [] b = "AdjacencyListIn" -> AliClearEdges(st)
      [] b = "AdjacencyMatrix" -> AmClearEdges(st)

\* a faulty from_graphdef step that skips a record whose cell is already set
AmPushRecordOnce(mat, er) ==
    IF IsSome(Cell(mat, er.from, er.to)) THEN mat
    ELSE [mat EXCEPT !.edges = Append(@, er),
                     !.data[Idx(mat, er.from, er.to) + 1] = Some(Size(mat))]

\* AdjacencyMatrix::from_graphdef, one record: push it and set its cell
AmPushRecord(mat, er) ==
    [mat EXCEPT !.edges = Append(@, er),
                !.data[Idx(mat, er.from, er.to) + 1] = Some(Size(mat))]

\* from_graphdef, one record, for the backend b
PushRecord(b, st, er) ==
    CASE b = "AdjacencyList" -> AlAddEdgeById(st, er.from, er.to, er.meta, er.weight)
      [] b = "AdjacencyListIn" -> AliAddEdgeById(st, er.from, er.to, er.meta, er.weight)
      [] b = "AdjacencyMatrix" -> AmPushRecord(st, er)

RECURSIVE PushRecordsFrom(_, _, _, _)
PushRecordsFrom(b, st, edges, i) ==
    IF i > Len(edges) THEN st
    ELSE PushRecordsFrom(b, PushRecord(b, st, edges[i]), edges, i + 1)

\* From<GraphDefinition>: the backend takes the definition's interner, starts
\* with an empty index for its n nodes and pushes the records in order
FromGraphdef(b, def) ==
    LET n == Order(def)
        empty == [i \in 1..n |-> <<>>]
    IN  CASE b = "GraphDefinition" -> def
          [] b = "AdjacencyList" ->
                PushRecordsFrom(b, [nodes |-> def.nodes, edges |-> <<>>,
                                    out_adj |-> empty], def.edges, 1)
          [] b = "AdjacencyListIn" ->
                PushRecordsFrom(b, [nodes |-> def.nodes, edges |-> <<>>,
                                    out_adj |-> empty, in_adj |-> empty], def.edges, 1)
          [] b = "AdjacencyMatrix" ->
                PushRecordsFrom(b, [n |-> n, nodes |-> def.nodes, edges |-> <<>>,
                                    data |-> [i \in 1..(n * n) |-> None]], def.edges, 1)

\* the nodes of src added to the backend st, in id order
RECURSIVE AddNodesFrom(_, _, _, _)
AddNodesFrom(b, st, records, i) ==
    IF i > Len(records) THEN st
    ELSE AddNodesFrom(b, BackendAddNode(b, st, records[i].key, records[i].data),
                      records, i + 1)

\* the edge records of src added to the backend st, in id order
RECURSIVE AddEdgesFrom(_, _, _, _)
AddEdgesFrom(b, st, edges, i) ==
    IF i > Len(edges) THEN st
    ELSE AddEdgesFrom(b, BackendAddEdgeById(b, st, edges[i].from, edges[i].to,
                                           edges[i].meta, edges[i].weight),
                      edges, i + 1)

\* GraphDefinition::convert: a target with capacity for the nodes, filled by
\* add_node and add_edge_by_id
GdConvert(def, target) ==
    AddEdgesFrom(target,
                 AddNodesFrom(target, WithNodeCapacity(target, Order(def)),
                              def.nodes.records, 1),
                 def.edges, 1)

\* convert of the other backends: a fresh GraphDefinition with the records
\* interned and the edges added again, handed to the target's From
ToDefinition(st) ==
    AddEdgesFrom("GraphDefinition",
                 AddNodesFrom("GraphDefinition", NewStorage, st.nodes.records, 1),
                 st.edges, 1)

Convert(st, source, target) ==
    IF source = "GraphDefinition" THEN GdConvert(st, target)
    ELSE FromGraphdef(target, ToDefinition(st))

(* The same calls made on one storage of each backend *)

InitBackends ==
    /\ interner = NewInterner
    /\ call = <<>>
    /\ ret = None
    /\ accepted = 0
    /\ storage = NewStorage
    /\ kind = "Pseudo"
    /\ directed = TRUE
    /\ pc = "backends"
    /\ alg = [b \in Backends \ {"GraphDefinition"} |-> WithNodeCapacity(b, 0)]

\* the storage of backend b
Current(b) == IF b = "GraphDefinition" THEN storage ELSE alg[b]

BackendsAddNode(key, data) ==
    /\ pc = "backends"
    /\ storage' = AddNode(storage, key, data)
    /\ alg' = [b \in DOMAIN alg |-> BackendAddNode(b, alg[b], key, data)]
    /\ UNCHANGED <<interner, call, ret, accepted, kind, directed, pc>>

BackendsAddEdgeById(from, to, meta, weight) ==
    /\ pc = "backends"
    /\ Size(storage) < MaxStEdges
    /\ from \in NodeIds(storage)
    /\ to \in NodeIds(storage)
    /\ storage' = AddEdgeById(storage, from, to, meta, weight)
    /\ alg' = [b \in DOMAIN alg |-> BackendAddEdgeById(b, alg[b], from, to, meta, weight)]
    /\ UNCHANGED <<interner, call, ret, accepted, kind, directed, pc>>

BackendsAddEdgeByKey(from_key, to_key, from_data, to_data, meta, weight) ==
    /\ pc = "backends"
    /\ Size(storage) < MaxStEdges
    /\ storage' = BackendAddEdgeByKey("GraphDefinition", storage, from_key, to_key,
                                      from_data, to_data, meta, weight)
    /\ alg' = [b \in DOMAIN alg |->
                BackendAddEdgeByKey(b, alg[b], from_key, to_key,
                                    from_data, to_data, meta, weight)]
    /\ UNCHANGED <<interner, call, ret, accepted, kind, directed, pc>>

BackendsClearEdges ==
    /\ pc = "backends"
    /\ Size(storage) > 0
    /\ storage' = ClearEdges(storage)
    /\ alg' = [b \in DOMAIN alg |-> BackendClearEdges(b, alg[b])]
    /\ UNCHANGED <<interner, call, ret, accepted, kind, directed, pc>>

NextBackends ==
    \/ \E key \in 1..MaxStNodes, data \in Payloads : BackendsAddNode(key, data)
    \/ \E from, to \in 0..(MaxStNodes - 1), l \in EdgeLabels :
            BackendsAddEdgeById(from, to, l[1], l[2])
    \/ \E from_key, to_key \in 1..MaxStNodes, l \in EdgeLabels :
            BackendsAddEdgeByKey(from_key, to_key, "p", "q", l[1], l[2])
    \/ BackendsClearEdges

SpecBackends == InitBackends /\ [][NextBackends]_vars

\* C11: in the AdjacencyMatrix, for all node ids i and j below the order, the
\* cell (i, j) holds an edge id exactly when a record from i to j exists, and
\* the id it holds is that of a record with endpoints (i, j); so
\* edges_between(i, j) is non-empty exactly when an edge i -> j was inserted
\* since the last clear_edges.
C11_MatrixCells ==
    pc = "backends" =>
        LET mat == alg["AdjacencyMatrix"]
        IN  \A i, j \in 0..(mat.n - 1) :
                /\ IsSome(Cell(mat, i, j)) <=> HasEdgeBetween(mat, i, j)
                /\ IsSome(Cell(mat, i, j)) =>
                        /\ Unwrap(Cell(mat, i, j)) \in EdgeIds(mat)
                        /\ Endpoints(mat, Unwrap(Cell(mat, i, j))) = <<i, j>>
                /\ (AmEdgesBetween(mat, i, j) # <<>>) <=> HasEdgeBetween(storage, i, j)

\* the node keys and payloads and the edge records of a storage
Content(st) == [nodes |-> st.nodes, edges |-> st.edges]

\* C12: for every storage content and every pair of backends, converting a
\* storage to another backend and back yields the same node keys and payloads
\* at the same NodeIds and the same edge records at the same EdgeIds, parallel
\* edges and self-loops included.
C12_ConvertRoundTrip ==
    pc = "backends" =>
        \A source, target \in Backends :
            LET there == Convert(Current(source), source, target)
                back == Convert(there, target, source)
            IN  /\ Content(there) = Content(Current(source))
                /\ Content(back) = Content(Current(source))

\* a storage with three nodes and two parallel self-loops has been converted
\* to the matrix and back
W12_ParallelLoopsConverted ==
    /\ pc = "backends"
    /\ Order(storage) = 3
    /\ \E e \in EdgeIds(storage) : Endpoints(storage, e)[1] = Endpoints(storage, e)[2]
    /\ \E e, f \in EdgeIds(storage) : e # f /\ Endpoints(storage, e) = Endpoints(storage, f)
    /\ Convert(Convert(storage, "GraphDefinition", "AdjacencyMatrix"),
               "AdjacencyMatrix", "GraphDefinition") = storage
    /\ Size(Convert(alg["AdjacencyList"], "AdjacencyList", "AdjacencyMatrix")) = 2

\* how many times x occurs in the sequence s
Count(s, x) == Cardinality({i \in 1..Len(s) : s[i] = x})

\* the same elements with the same multiplicities
SameBag(s, t) == \A x \in Range(s) \cup Range(t) : Count(s, x) = Count(t, x)

\* the answers of backend b to the read queries of GraphBase
OrderOf(b) == IF b = "AdjacencyMatrix" THEN Current(b).n ELSE Order(Current(b))

EdgesBetweenOf(b, u, v) ==
    CASE b \in {"GraphDefinition", "AdjacencyList"} -> EdgesBetween(Current(b), u, v)
      [] b = "AdjacencyListIn" -> AliEdgesBetween(Current(b), u, v)
      [] b = "AdjacencyMatrix" -> AmEdgesBetween(Current(b), u, v)

SuccessorsOf(b, v) ==
    CASE b = "GraphDefinition" -> StorageSuccessors(Current(b), v)
      [] b = "AdjacencyList" -> AlSuccessors(Current(b), v)
      [] b = "AdjacencyListIn" -> AliSuccessors(Current(b), v)
      [] b = "AdjacencyMatrix" -> AmSuccessors(Current(b), v)

PredecessorsOf(b, v) ==
    CASE b = "GraphDefinition" -> StoragePredecessors(Current(b), v)
      [] b = "AdjacencyList" -> AlPredecessors(Current(b), v)
      [] b = "AdjacencyListIn" -> AliPredecessors(Current(b), v)
      [] b = "AdjacencyMatrix" -> AmPredecessors(Current(b), v)

NeighborhoodOf(b, v) ==
    CASE b = "GraphDefinition" -> Neighborhood(Current(b), v)
      [] b = "AdjacencyList" -> AlNeighborhood(Current(b), v)
      [] b = "AdjacencyListIn" -> AliNeighborhood(Current(b), v)
      [] b = "AdjacencyMatrix" -> AmNeighborhood(Current(b), v)

\* C13: after the same calls the four backends give the same answer to every
\* read query: order, size, endpoints, edges_between, successors,
\* predecessors and neighborhood yield the same ids with the same
\* multiplicities.
C13_BackendsAgree ==
    pc = "backends" =>
        \A a, b \in Backends :
            /\ OrderOf(a) = OrderOf(b)
            /\ Size(Current(a)) = Size(Current(b))
            /\ \A e \in EdgeIds(storage) : Endpoints(Current(a), e) = Endpoints(Current(b), e)
            /\ \A u, v \in NodeIds(storage) :
                    SameBag(EdgesBetweenOf(a, u, v), EdgesBetweenOf(b, u, v))
            /\ \A v \in NodeIds(storage) :
                    /\ SameBag(SuccessorsOf(a, v), SuccessorsOf(b, v))
                    /\ SameBag(PredecessorsOf(a, v), PredecessorsOf(b, v))
                    /\ SameBag(NeighborhoodOf(a, v), NeighborhoodOf(b, v))

-----------------------------------------------------------------------------
(* dijkstra: completion and path reconstruction (algorithms/dijkstra.rs) *)

\* C14: for every graph and every start key present in it, dijkstra runs to
\* completion without aborting, and every node that is not reachable from the
\* start ends with an unknown tentative weight and no predecessor, whatever
\* edges the unreachable nodes have among themselves.
C14_DijkstraCompletes ==
    /\ (pc = "aborted" /\ call[1] = "dijkstra") => ~IsSome(NodeIdOf(storage, call[2]))
    /\ (pc = "returned" /\ call[1] = "dijkstra") =>
            /\ alg.unvisited = <<>>
            /\ \A v \in NodeIds(storage) :
                    SimplePaths(storage, alg.source_id, v) = {} =>
                        /\ Unwrap(ret).tentative_weights[v + 1] = None
                        /\ Unwrap(ret).predecessors[v + 1] = None

\* Iterator::position: the index of the first element equal to k
Position(nodes, k) ==
    IF k \in Range(nodes)
    THEN Some(MinOf({i \in 1..Len(nodes) : nodes[i] = k}) - 1)
    ELSE None

\* a faulty walk that stops without pushing the node it ends on
RECURSIVE WalkBackNoStart(_, _, _)
WalkBackNoStart(result, current_index, path) ==
    IF IsSome(result.predecessors[current_index + 1])
    THEN WalkBackNoStart(result, Unwrap(result.predecessors[current_index + 1]),
                         Append(path, result.nodes[current_index + 1]))
    ELSE path

\* the while-let loop of lightest_path_to and the push after it: the keys
\* from the target back along the predecessor links
RECURSIVE WalkBack(_, _, _)
WalkBack(result, current_index, path) ==
    IF IsSome(result.predecessors[current_index + 1])
    THEN WalkBack(result, Unwrap(result.predecessors[current_index + 1]),
                  Append(path, result.nodes[current_index + 1]))
    ELSE Append(path, result.nodes[current_index + 1])

\* DijkstraResult::lightest_path_to: msg is the message of the failed expect,
\* out the Option returned
LightestPathTo(result, target) ==
    LET target_index == Position(result.nodes, target)
    IN  IF ~IsSome(target_index)
        THEN [msg |-> "Target node not found in DijkstraResult", out |-> None]
        ELSE IF ~IsSome(result.tentative_weights[Unwrap(target_index) + 1])
        THEN [msg |-> "", out |-> None]
        ELSE [msg |-> "",
              out |-> Some(<<Unwrap(result.tentative_weights[Unwrap(target_index) + 1]),
                             Reverse(WalkBack(result, Unwrap(target_index), <<>>))>>)]

PathWeights == {0, 1, 3}    \* arc weights offered, a free arc included

\* result.lightest_path_to(&target) on the result dijkstra returned
LightestPathToCall(target) ==
    /\ pc = "returned"
    /\ call' = <<"lightest_path_to", target>>
    /\ alg' = [source_id |-> alg.source_id] @@ LightestPathTo(Unwrap(ret), target)
    /\ pc' = "path"
    /\ UNCHANGED <<interner, ret, accepted, varsG>>

NextLightestPath ==
    \/ \E from_key, to_key \in 1..MaxDijNodes, w \in PathWeights :
        BuildArc(from_key, to_key, Some(w), MaxDijArcs)
    \/ \E start \in 1..MaxDijNodes : DijkstraCall(start)
    \/ DijkstraVisit
    \/ DijkstraReturn
    \/ \E target \in 1..(MaxDijNodes + 1) : LightestPathToCall(target)

SpecLightestPath == InitDijkstra /\ [][NextLightestPath]_vars

\* the key sequence path as node ids
PathIds(st, path) == [i \in 1..Len(path) |-> Unwrap(NodeIdOf(st, path[i]))]

\* C15: for every result of dijkstra and every target key present in it,
\* lightest_path_to returns no path exactly when the target's tentative weight
\* is unknown; otherwise it returns that weight with a node sequence that
\* starts at the start node, ends at the target, joins each consecutive pair
\* by an edge of the graph and whose lightest connecting edges sum to the
\* returned weight.  A target key absent from the graph makes the call fail.
C15_LightestPath ==
    pc = "path" =>
        LET result == Unwrap(ret)
            target == call[2]
        IN  IF ~IsSome(NodeIdOf(storage, target))
            THEN alg.msg = "Target node not found in DijkstraResult"
            ELSE LET t == Unwrap(NodeIdOf(storage, target))
                 IN  /\ alg.msg = ""
                     /\ (alg.out = None) <=> (result.tentative_weights[t + 1] = None)
                     /\ IsSome(alg.out) =>
                            LET p == PathIds(storage, Unwrap(alg.out)[2])
                            IN  /\ Some(Unwrap(alg.out)[1]) = result.tentative_weights[t + 1]
                                /\ Len(p) >= 1
                                /\ p[1] = alg.source_id
                                /\ p[Len(p)] = t
                                /\ \A i \in 1..(Len(p) - 1) :
                                        WeightsBetween(storage, p[i], p[i + 1]) # {}
                                /\ PathWeight(storage, p, 1) = Unwrap(alg.out)[1]

\* a path over two arcs, a free one and one of weight 1, has been returned
W15_TwoArcPath ==
    /\ pc = "path"
    /\ IsSome(alg.out)
    /\ Len(Unwrap(alg.out)[2]) = 3
    /\ Unwrap(alg.out)[1] = 1
    /\ Size(storage) = 3

-----------------------------------------------------------------------------
(* ford_fulkerson: conservation and termination *)

\* the net flow over the ordered pairs leaving v
NetOutflow(st, flow, v) ==
    SumOver(NodeIds(st), [w \in NodeIds(st) |-> FlowGet(flow, v, w)])

\* flow is skew-symmetric and conserved at every node but source and sink
Conserved(st, flow, source, sink) ==
    /\ \A u, v \in NodeIds(st) : FlowGet(flow, u, v) = 0 - FlowGet(flow, v, u)
    /\ \A v \in NodeIds(st) \ {source, sink} : NetOutflow(st, flow, v) = 0

\* C16: in the flow accumulated by ford_fulkerson from zero initial flow,
\* after every augmentation step and in the final result, every node other
\* than the source and the sink has total inflow equal to total outflow, and
\* flow(u, v) = -flow(v, u) for every ordered pair.
C16_FlowConservation ==
    /\ pc = "ford_fulkerson" =>
            /\ Conserved(storage, alg.flow, alg.source, alg.sink)
            /\ \A k \in 1..Len(alg.networks) :
                    IsSome(alg.networks[k].network) =>
                        Conserved(storage, Unwrap(alg.networks[k].network),
                                  alg.source, alg.sink)
    /\ pc = "returned" =>
            Conserved(storage, Unwrap(ret).flow, alg.source, alg.sink)

\* a flow of 2 has been returned that passes through a node other than the
\* source and the sink
W16_FlowThroughInnerNode ==
    /\ pc = "returned"
    /\ Unwrap(ret).max_flow = 2
    /\ \E v \in NodeIds(storage) \ {alg.source, alg.sink} :
        \E w \in NodeIds(storage) : FlowGet(Unwrap(ret).flow, v, w) > 0

\* the sum of the capacities of the network
TotalCapacity(st, capacity) ==
    SumOver(EdgeIds(st), [e \in EdgeIds(st) |-> capacity[e + 1]])

\* C17: ford_fulkerson terminates for every flow network with finite
\* non-negative integer capacities and any designated source and sink nodes of
\* the graph: every iteration but the last pushes at least one unit of flow,
\* so there are never more trace steps than the total capacity plus one, and
\* the function returns after a final trace step with no augmented network,
\* an empty path and bottleneck 0.
C17_Terminates ==
    /\ pc = "ford_fulkerson" =>
            /\ Len(alg.networks) <= TotalCapacity(storage, alg.capacity) + 1
            /\ \A k \in 1..Len(alg.networks) :
                    IsSome(alg.networks[k].network) =>
                        /\ alg.networks[k].bottleneck \in
                                1..TotalCapacity(storage, alg.capacity)
                        /\ Len(alg.networks[k].path) >= 2
    /\ pc = "returned" =>
            LET last == Unwrap(ret).steps[Len(Unwrap(ret).steps)]
            IN  last.network = None /\ last.path = <<>> /\ last.bottleneck = 0

-----------------------------------------------------------------------------
(* warshall_lightest_path_matrix and compute_graph_distances               *)
(* (algorithms/warshall.rs).  A cell of the path matrix is None or         *)
(* Some(<<path, weight>>), path a sequence of node indices.                *)

\* edge weights offered: none, a free edge, and two positive weights
WaWeights == {None, Some(0), Some(1), Some(3)}

\* the initialisation loop over the edge ids from e on: the cell of a
\* weighted record is set to that record's two-node path and weight
RECURSIVE PathInitFrom(_, _, _)
PathInitFrom(st, e, paths) ==
    IF e >= Size(st) THEN paths
    ELSE LET src == Endpoints(st, e)[1]
             dst == Endpoints(st, e)[2]
         IN  PathInitFrom(st, e + 1,
                IF IsSome(WeightOf(st, e))
                THEN [paths EXCEPT ![src + 1][dst + 1] =
                                        Some(<<<<src, dst>>, Unwrap(WeightOf(st, e))>>)]
                ELSE paths)

PathInit(st) ==
    PathInitFrom(st, 0, [i \in 1..Order(st) |-> [j \in 1..Order(st) |-> None]])

\* path_ik without its last node, followed by path_kj
JoinPaths(path_ik, path_kj) == SubSeq(path_ik, 1, Len(path_ik) - 1) \o path_kj

\* the loops over i and j for one k, in place, from the cell i = t / n,
\* j = t % n on
RECURSIVE PathCells(_, _, _, _)
PathCells(paths, n, k, t) ==
    IF t >= n * n THEN paths
    ELSE LET i == (t \div n) + 1
             j == (t % n) + 1
             ik == paths[i][k + 1]
             kj == paths[k + 1][j]
         IN  PathCells(
                IF IsSome(ik) /\ IsSome(kj)
                   /\ (~IsSome(paths[i][j])
                       \/ Unwrap(ik)[2] + Unwrap(kj)[2] < Unwrap(paths[i][j])[2])
                THEN [paths EXCEPT ![i][j] =
                        Some(<<JoinPaths(Unwrap(ik)[1], Unwrap(kj)[1]),
                               Unwrap(ik)[2] + Unwrap(kj)[2]>>)]
                ELSE paths, n, k, t + 1)

\* the greatest element of a non-empty set of integers
MaxOf(S) == CHOOSE x \in S : \A y \in S : y <= x

\* the loop over j for one i: the greatest weight among the cells of row i
\* off the diagonal that hold a path
MaxDistance(paths, n, i) ==
    LET dists == {Unwrap(paths[i + 1][j + 1])[2] :
                    j \in {x \in 0..(n - 1) : x # i /\ IsSome(paths[i + 1][x + 1])}}
    IN  IF dists = {} THEN None ELSE Some(MaxOf(dists))

\* compute_graph_distances on the result of warshall_lightest_path_matrix
ComputeGraphDistances(result) ==
    LET n == Len(result.matrices[1].nodes)
        last == result.matrices[Len(result.matrices)].paths
        eccentricities == [i \in 1..n |-> MaxDistance(last, n, i - 1)]
        defined == {Unwrap(eccentricities[i]) :
                        i \in {x \in 1..n : IsSome(eccentricities[x])}}
    IN  [nodes |-> result.nodes,
         eccentricities |-> eccentricities,
         radius |-> IF defined = {} THEN None ELSE Some(MinOf(defined)),
         diameter |-> IF defined = {} THEN None ELSE Some(MaxOf(defined))]

LightestPathMatrixCall ==
    /\ pc = "build"
    /\ call' = <<"warshall_lightest_path_matrix">>
    /\ ret' = None
    /\ alg' = [n |-> Order(storage), paths |-> PathInit(storage), k |-> 0,
               matrices |-> <<PathInit(storage)>>]
    /\ pc' = "lightest"
    /\ UNCHANGED <<interner, accepted, varsG>>

LightestPathMatrixRound ==
    /\ pc = "lightest"
    /\ alg.k < alg.n
    /\ LET paths == PathCells(alg.paths, alg.n, alg.k, 0)
       IN  alg' = [alg EXCEPT !.paths = paths, !.k = @ + 1,
                              !.matrices = Append(@, paths)]
    /\ UNCHANGED <<interner, varsCall, varsG, pc>>

LightestPathMatrixReturn ==
    /\ pc = "lightest"
    /\ alg.k >= alg.n
    /\ LET nodes == [i \in 1..Order(storage) |-> NodeKey(storage, i - 1)]
       IN  ret' = Some([nodes |-> nodes,
                        matrices |-> [m \in 1..Len(alg.matrices) |->
                                        [nodes |-> nodes, paths |-> alg.matrices[m]]]])
    /\ pc' = "returned"
    /\ UNCHANGED <<interner, call, accepted, varsG, alg>>

\* compute_graph_distances(&result); a graph without nodes still has the
\* initial matrix
ComputeGraphDistancesCall ==
    /\ pc = "returned"
    /\ call' = <<"compute_graph_distances">>
    /\ alg' = ComputeGraphDistances(Unwrap(ret))
    /\ pc' = "distances"
    /\ UNCHANGED <<interner, ret, accepted, varsG>>

NextLightestPaths ==
    \/ \E from_key, to_key \in 1..MaxWaNodes, w \in WaWeights :
            BuildArc(from_key, to_key, w, MaxWaArcs)
    \/ \E a_key, b_key \in 1..MaxWaNodes, w \in WaWeights :
            BuildEdge(a_key, b_key, w, MaxWaEdges)
    \/ LightestPathMatrixCall
    \/ LightestPathMatrixRound
    \/ LightestPathMatrixReturn
    \/ ComputeGraphDistancesCall

SpecLightestPaths == InitWarshall /\ [][NextLightestPaths]_vars

\* the last matrix of a result
LastPaths(result) == result.matrices[Len(result.matrices)].paths

\* C18: for every graph with non-negative weights, several edges of different
\* weight on the same ordered pair included, in the last matrix returned by
\* warshall_lightest_path_matrix each cell (i, j) with i # j holds a path
\* exactly when j is reachable from i over weighted edges, the stored weight
\* is the minimum total weight of a path from i to j and the stored sequence
\* is a real path from i to j; a cell is replaced only by a strictly lighter
\* candidate.
C18_LightestPathMatrix ==
    (pc = "returned" /\ call[1] = "warshall_lightest_path_matrix") =>
        LET result == Unwrap(ret)
            last == LastPaths(result)
            N == NodeIds(storage)
        IN  /\ \A i, j \in N :
                i # j =>
                    /\ IsSome(last[i + 1][j + 1]) <=> SimplePaths(storage, i, j) # {}
                    /\ IsSome(last[i + 1][j + 1]) =>
                        LET p == Unwrap(last[i + 1][j + 1])[1]
                        IN  /\ Unwrap(last[i + 1][j + 1])[2] = MinPathWeight(storage, i, j)
                            /\ Len(p) >= 2 /\ p[1] = i /\ p[Len(p)] = j
                            /\ \A x \in 1..(Len(p) - 1) :
                                    WeightsBetween(storage, p[x], p[x + 1]) # {}
            /\ \A m \in 1..(Len(result.matrices) - 1) : \A i, j \in N :
                    LET old == result.matrices[m].paths[i + 1][j + 1]
                        new == result.matrices[m + 1].paths[i + 1][j + 1]
                    IN  \/ new = old
                        \/ ~IsSome(old) /\ IsSome(new)
                        \/ IsSome(old) /\ IsSome(new) /\ Unwrap(new)[2] < Unwrap(old)[2]

\* C19: compute_graph_distances gives node i an eccentricity equal to the
\* maximum, over all nodes j # i, of the final lightest-path weight from i to
\* j, and leaves it undefined whenever some node j # i is unreachable from i;
\* radius and diameter are the minimum and maximum of the defined
\* eccentricities and are undefined when no eccentricity is defined.
C19_GraphDistances ==
    pc = "distances" =>
        LET last == LastPaths(Unwrap(ret))
            N == NodeIds(storage)
            defined == {Unwrap(alg.eccentricities[i + 1]) :
                            i \in {x \in N : IsSome(alg.eccentricities[x + 1])}}
        IN  /\ \A i \in N :
                LET others == N \ {i}
                IN  IF \E j \in others : ~IsSome(last[i + 1][j + 1])
                    THEN alg.eccentricities[i + 1] = None
                    ELSE others # {} =>
                            alg.eccentricities[i + 1] =
                                Some(MaxOf({Unwrap(last[i + 1][j + 1])[2] : j \in others}))
            /\ alg.radius = IF defined = {} THEN None ELSE Some(MinOf(defined))
            /\ alg.diameter = IF defined = {} THEN None ELSE Some(MaxOf(defined))

-----------------------------------------------------------------------------
(* hierholzer_undirected: the degree check *)

\* C20: for every undirected graph built through the wrapper that has at
\* least one node of odd degree (parallel edges counted separately, a
\* self-loop counted twice), hierholzer_undirected returns an error that names
\* an odd-degree node and its degree, and never returns a circuit.
C20_OddDegreeRejected ==
    (/\ pc = "returned"
     /\ \E v \in NodeIds(storage) : EdgeDegree(storage, v) % 2 = 1) =>
        LET r == Unwrap(ret)
        IN  /\ IsErr(r)
            /\ \E v \in NodeIds(storage) :
                /\ EdgeDegree(storage, v) % 2 = 1
                /\ r[2] = <<"Graph is not Eulerian: Node has odd degree",
                            NodeKey(storage, v), EdgeDegree(storage, v)>>

-----------------------------------------------------------------------------
(* hierholzer_undirected: the length check and the edgeless graphs *)

\* the edges of st lie in more than one connected component
EdgesApart(st) ==
    \E e1, e2 \in EdgeIds(st) :
        Endpoints(st, e2)[1] \notin Grow({Endpoints(st, e1)[1]}, LinksOf(st, EdgeIds(st)))

\* C21: hierholzer_undirected returns the error "Graph has disconnected
\* components with edges." whenever every node has even degree and the edges
\* lie in more than one connected component; on a graph with at least one
\* node and no edge it returns the circuit of the one key of node 0, and on a
\* graph with no node it returns the empty path.
C21_DisconnectedRejected ==
    pc = "returned" =>
        LET r == Unwrap(ret)
        IN  /\ ((\A v \in NodeIds(storage) : EdgeDegree(storage, v) % 2 = 0)
                    /\ EdgesApart(storage)) =>
                  r = Err("Graph has disconnected components with edges.")
            /\ (Size(storage) = 0 /\ Order(storage) > 0) =>
                  r = <<"Ok", <<NodeKey(storage, 0)>>>>
            /\ Order(storage) = 0 => r = <<"Ok", <<>>>>

\* two self-loops at different nodes were rejected after the walk went round
\* the first one
W21_TwoLoopsRejected ==
    /\ pc = "returned"
    /\ Order(storage) >= 2
    /\ \A v \in NodeIds(storage) : EdgeDegree(storage, v) % 2 = 0
    /\ EdgesApart(storage)
    /\ Len(alg.circuit) >= 2
    /\ IsErr(Unwrap(ret))

-----------------------------------------------------------------------------
(* prufer_to_tree on arbitrary sequences *)

MaxSeqLen == 3          \* length of the sequences offered to prufer_to_tree

\* the sequences of up to MaxSeqLen values, each from 0 to one above the
\* largest label n = length + 2, and the sequence of prufer_to_tree_example
DecodeInputs ==
    UNION {[1..k -> 0..(k + 3)] : k \in 0..MaxSeqLen} \cup {<<4, 3, 1, 3, 1>>}

InitDecode ==
    /\ interner = NewInterner
    /\ call = <<>>
    /\ ret \in {Some(sequence) : sequence \in DecodeInputs}
    /\ accepted = 0
    /\ storage = NewStorage
    /\ kind = "Simple"
    /\ directed = FALSE
    /\ pc = "encoded"
    /\ alg = <<>>

NextDecode ==
    \/ PruferToTreeCall
    \/ PruferToTreeStep
    \/ PruferToTreeReturn

SpecDecode == InitDecode /\ [][NextDecode]_vars

\* the number of edge records at the node with key k
RecordDegree(st, k) ==
    LET v == Unwrap(NodeIdOf(st, k))
    IN  Cardinality({e \in EdgeIds(st) : Endpoints(st, e)[1] = v})
        + Cardinality({e \in EdgeIds(st) : Endpoints(st, e)[2] = v})

InRange(sequence) ==
    \A j \in 1..Len(sequence) : sequence[j] \in 1..(Len(sequence) + 2)

\* C22: for every sequence of length n - 2 whose values all lie in 1..=n,
\* prufer_to_tree does not fail and returns a graph with exactly the nodes
\* 1..n and exactly n - 1 edges that is connected (so acyclic: a tree), in
\* which each label's degree is 1 plus its occurrences in the sequence; for
\* 4, 3, 1, 3, 1 it has 7 nodes. A sequence with a value outside 1..=n makes
\* the call fail.
C22_DecodeYieldsTree ==
    /\ pc \in {"prufer_to_tree", "decoded"} => InRange(alg.sequence)
    /\ pc = "aborted" => ~InRange(alg.sequence)
    /\ pc = "decoded" =>
        LET t == Unwrap(ret)
            n == Len(alg.sequence) + 2
        IN  /\ Order(t) = n
            /\ {NodeKey(t, v) : v \in NodeIds(t)} = 1..n
            /\ Size(t) = n - 1
            /\ Cardinality(Components(NodeIds(t), LinksOf(t, EdgeIds(t)))) = 1
            /\ \A k \in 1..n :
                RecordDegree(t, k) =
                    1 + Cardinality({j \in 1..Len(alg.sequence) : alg.sequence[j] = k})
            /\ alg.sequence = <<4, 3, 1, 3, 1>> => Order(t) = 7

\* the example sequence has been decoded to a tree in which label 1 has
\* degree 3
W22_ExampleDecoded ==
    /\ pc = "decoded"
    /\ alg.sequence = <<4, 3, 1, 3, 1>>
    /\ Size(Unwrap(ret)) = 6
    /\ RecordDegree(Unwrap(ret), 1) = 3

\* a sequence with a value above n made the call fail
W22_OutOfRangeFailed ==
    /\ pc = "aborted"
    /\ \E j \in 1..Len(alg.sequence) : alg.sequence[j] > Len(alg.sequence) + 2

-----------------------------------------------------------------------------
(* chromatic_polynomial: the shape of the result *)

\* Polynomial::eval: the sum of c * power_of_x over the coefficients from
\* index i on
RECURSIVE EvalFrom(_, _, _, _, _)
EvalFrom(c, x, i, result, power_of_x) ==
    IF i > Len(c) THEN result
    ELSE EvalFrom(c, x, i + 1, result + c[i] * power_of_x, power_of_x * x)

PolyEval(c, x) == EvalFrom(c, x, 1, 0, 1)

\* C23: for every graph with at least one node and every method, the
\* polynomial returned by chromatic_polynomial evaluates to 0 at x = 0, its
\* constant coefficient is 0, and its last coefficient is not 0 unless it is
\* the only one.
C23_ZeroAtZeroNormalized ==
    (pc = "chromatic" /\ Order(storage) >= 1) =>
        \A m \in Methods :
            IsSome(alg[m]) =>
                LET p == Unwrap(alg[m])
                IN  /\ Len(p) >= 1
                    /\ PolyEval(p, 0) = 0
                    /\ p[1] = 0
                    /\ Len(p) > 1 => p[Len(p)] # 0

\* the three methods have been run on a triangle, with the result
\* x^3 - 3 x^2 + 2 x
W23_TriangleAllMethods ==
    /\ pc = "chromatic"
    /\ Order(storage) = 3
    /\ EdgeCount(FromGraph(storage)) = 3
    /\ \A m \in Methods : alg[m] = Some(<<0, 2, -3, 1>>)

-----------------------------------------------------------------------------
(* ford_fulkerson: the residual network of every iteration *)

\* the flow of the flow network at the start of iteration k: the original
\* flow plus the flow accumulated by the iterations before
FlowAt(d, k) ==
    FlowAdd(d.original_flow,
            IF k = 1 THEN ZeroFlowFrom(storage, 0, FlowNew)
            ELSE Unwrap(d.networks[k - 1].network))

\* the edges of the residual network r from u to v with capacity c
ResidualCount(r, u, v, c) ==
    Cardinality({i \in 1..Size(r.st) :
                    Endpoints(r.st, i - 1) = <<u, v>> /\ r.capacity[i] = c})

\* the original edges that call for a residual edge from u to v with
\* capacity c > 0: the edges u -> v with c left, and the edges v -> u that
\* carry a flow of c when no original edge runs from u to v
ExpectedCount(st, capacity, flow, u, v, c) ==
    Cardinality({e \in EdgeIds(st) :
                    /\ Endpoints(st, e) = <<u, v>>
                    /\ capacity[e + 1] - FlowGet(flow, u, v) = c})
    + (IF EdgesBetween(st, u, v) = <<>>
       THEN Cardinality({e \in EdgeIds(st) :
                    Endpoints(st, e) = <<v, u>> /\ FlowGet(flow, v, u) = c})
       ELSE 0)

\* the capacities that occur in r or are called for by an original edge
CapacitiesAt(st, capacity, flow, r) ==
    {x \in Range(r.capacity)
            \cup {capacity[e + 1] - FlowGet(flow, Endpoints(st, e)[1], Endpoints(st, e)[2]) :
                    e \in EdgeIds(st)}
            \cup {FlowGet(flow, Endpoints(st, e)[1], Endpoints(st, e)[2]) : e \in EdgeIds(st)} :
        x > 0}

\* the ordered pairs that carry an edge of r or an original edge in either
\* direction; no other pair has a residual edge or calls for one
PairsAt(st, r) ==
    {Endpoints(r.st, i - 1) : i \in 1..Size(r.st)}
        \cup {Endpoints(st, e) : e \in EdgeIds(st)}
        \cup {<<Endpoints(st, e)[2], Endpoints(st, e)[1]>> : e \in EdgeIds(st)}

-----------------------------------------------------------------------------
(* chromatic_number (algorithms/colorings.rs) *)

MaxColours == 6         \* colours up to which evaluations are compared

\* the loop of chromatic_number from k on: the first k <= n at which the
\* polynomial is positive
RECURSIVE FirstPositive(_, _, _)
FirstPositive(poly, k, n) ==
    IF k > n THEN None
    ELSE IF PolyEval(poly, k) > 0 THEN Some(k)
    ELSE FirstPositive(poly, k + 1, n)

ChromaticNumber(st) ==
    LET poly == ChromaticPolynomial(st, "Auto")
        n == Order(st)
        first == FirstPositive(poly, 1, n)
    IN  IF IsSome(first) THEN Unwrap(first)
        ELSE IF n = 0 THEN 0 ELSE 1

\* chromatic_number(&graph); the polynomial it evaluated is kept in alg
ChromaticNumberCall ==
    /\ pc = "build"
    /\ call' = <<"chromatic_number">>
    /\ ret' = Some(ChromaticNumber(storage))
    /\ alg' = [poly |-> ChromaticPolynomial(storage, "Auto")]
    /\ pc' = "number"
    /\ UNCHANGED <<interner, accepted, varsG>>

NextChromaticNumber ==
    \/ \E a_key, b_key \in 1..MaxChNodes : BuildEdge(a_key, b_key, None, MaxChEdges)
    \/ ChromaticNumberCall

SpecChromaticNumber == InitChromatic /\ [][NextChromaticNumber]_vars

\* the proper colourings of the graph with the colours 1..k: adjacent nodes
\* differ, so a node with a self-loop has no colour
Colourings(st, k) ==
    {f \in [NodeIds(st) -> 1..k] :
        \A e \in EdgeIds(st) : f[Endpoints(st, e)[1]] # f[Endpoints(st, e)[2]]}

\* C25: for every graph with at least one node, chromatic_number returns the
\* least k >= 1 at which the chromatic polynomial is positive, this k is the
\* least number of colours with a proper colouring, and the polynomial is
\* positive at every k from it on; for a graph with no nodes it returns 0.
C25_ChromaticNumber ==
    pc = "number" =>
        LET k == Unwrap(ret)
        IN  IF Order(storage) = 0 THEN k = 0
            ELSE /\ k >= 1
                 /\ PolyEval(alg.poly, k) > 0
                 /\ \A j \in 1..(k - 1) : PolyEval(alg.poly, j) <= 0
                 /\ Colourings(storage, k) # {}
                 /\ \A j \in 1..(k - 1) : Colourings(storage, j) = {}
                 /\ \A j \in k..MaxColours : PolyEval(alg.poly, j) > 0

\* the graph has no self-loop
LoopFree(st) == \A e \in EdgeIds(st) : Endpoints(st, e)[1] # Endpoints(st, e)[2]

-----------------------------------------------------------------------------
(* The checked insertions: what a rejected call leaves behind *)

\* the call made by this step returned an error and left the nodes (keys
\* and ids) and the edge records of the storage as they were
RejectedStepOK ==
    IsErr(Unwrap(ret')) =>
        /\ storage'.nodes = storage.nodes
        /\ Order(storage') = Order(storage)
        /\ storage'.edges = storage.edges

\* C26: whenever add_arc_checked, add_edge_checked, add_arc_by_key_checked
\* or add_edge_by_key_checked returns an error, the storage has the same
\* nodes (order, keys, ids) and the same edge records as before the call.
C26_RejectedLeavesGraph == [][RejectedStepOK]_vars

-----------------------------------------------------------------------------
(* The backends constructed with a node capacity *)

MaxCapacity == 2        \* capacities passed to with_node_capacity

\* S::with_node_capacity(capacity) for every backend
InitCapacity ==
    /\ interner = NewInterner
    /\ ret = None
    /\ accepted = 0
    /\ storage = NewStorage
    /\ kind = "Pseudo"
    /\ directed = TRUE
    /\ pc = "backends"
    /\ \E capacity \in 0..MaxCapacity :
        /\ call = <<"with_node_capacity", capacity>>
        /\ alg = [b \in Backends \ {"GraphDefinition"} |-> WithNodeCapacity(b, capacity)]

SpecCapacity == InitCapacity /\ [][NextBackends]_vars

\* the distinct keys held by the interner of backend b
KeysOf(b) ==
    {Current(b).nodes.records[i].key : i \in 1..Len(Current(b).nodes.records)}

SizeOf(b) == Len(Current(b).edges)

\* order() is the number of distinct keys inserted, so that node_ids()
\* yields the ids below it and node_key is defined on each of them
OrderIsKeys ==
    \A b \in Backends :
        /\ KeysOf(b) = KeysOf("GraphDefinition")
        /\ OrderOf(b) = Cardinality(KeysOf(b))
        /\ \A id \in 0..(OrderOf(b) - 1) : id < InternerLen(Current(b).nodes)

\* a clear_edges step keeps the order and the keys and leaves no edge
ClearStepOK ==
    (Size(storage) > 0 /\ storage' = ClearEdges(storage)) =>
        \A b \in Backends :
            /\ OrderOf(b)' = OrderOf(b)
            /\ Current(b)'.nodes = Current(b).nodes
            /\ SizeOf(b)' = 0

\* C27: for every backend and every capacity passed to with_node_capacity,
\* after any sequence of add_node, add_edge_by_key and clear_edges calls
\* order() equals the number of distinct node keys inserted, node_ids()
\* yields exactly the ids 0..order()-1 and node_key is defined on each of
\* them; clear_edges changes none of these and sets size() to 0.
C27_OrderCountsKeys == []OrderIsKeys /\ [][ClearStepOK]_vars

-----------------------------------------------------------------------------
(* dijkstra against warshall_lightest_path_matrix *)

\* the rounds k, k + 1, ... of warshall_lightest_path_matrix run to the end
RECURSIVE PathRounds(_, _, _)
PathRounds(paths, n, k) ==
    IF k >= n THEN paths ELSE PathRounds(PathCells(paths, n, k, 0), n, k + 1)

\* the last matrix of warshall_lightest_path_matrix(&graph)
LastPathMatrix(st) == PathRounds(PathInit(st), Order(st), 0)

\* C28: for every directed graph with non-negative weights and all distinct
\* nodes i and j, dijkstra started at i reports a known tentative weight for
\* j exactly when the last matrix of warshall_lightest_path_matrix holds a
\* path in cell (i, j), and then the two weights are equal.
C28_DijkstraMatchesWarshall ==
    (pc = "returned" /\ call[1] = "dijkstra") =>
        LET last == LastPathMatrix(storage)
            tw == Unwrap(ret).tentative_weights
            i == alg.source_id
        IN  \A j \in NodeIds(storage) \ {i} :
                /\ IsSome(tw[j + 1]) <=> IsSome(last[i + 1][j + 1])
                /\ IsSome(tw[j + 1]) =>
                        Unwrap(tw[j + 1]) = Unwrap(last[i + 1][j + 1])[2]

-----------------------------------------------------------------------------
(* ford_fulkerson: the accumulated flow against the capacities *)

\* flow stays within the capacity of every original edge and is not negative
\* on an original edge whose reverse edge is not in the graph
WithinCapacity(st, capacity, flow) ==
    \A e \in EdgeIds(st) :
        LET u == Endpoints(st, e)[1]
            v == Endpoints(st, e)[2]
        IN  /\ FlowGet(flow, u, v) <= capacity[e + 1]
            /\ EdgesBetween(st, v, u) = <<>> => FlowGet(flow, u, v) >= 0

\* C29: in ford_fulkerson started from zero initial flow on a network with at
\* most one edge per ordered pair, after every augmentation step
\* flow(u, v) <= capacity(u, v) for every original edge and flow(u, v) >= 0
\* for every original edge whose reverse edge is not in the graph; every
\* augmenting step of the trace has a bottleneck of at least 1 and a path
\* that starts at the source and ends at the sink.
C29_FlowWithinCapacity ==
    (pc \in {"ford_fulkerson", "returned"} /\ OneEdgePerPair(storage)) =>
        /\ WithinCapacity(storage, alg.capacity, alg.flow)
        /\ \A k \in 1..Len(alg.networks) :
            IsSome(alg.networks[k].network) =>
                LET step == alg.networks[k]
                IN  /\ WithinCapacity(storage, alg.capacity, Unwrap(step.network))
                    /\ ~U32Less(step.bottleneck, 1)
                    /\ Len(step.path) >= 1
                    /\ step.path[1] = NodeKey(storage, alg.source)
                    /\ step.path[Len(step.path)] = NodeKey(storage, alg.sink)

\* two augmenting steps over a pair of opposite edges: one original edge
\* carries a negative flow, another is filled to its capacity
W29_OppositeEdgesUsed ==
    /\ pc = "ford_fulkerson"
    /\ OneEdgePerPair(storage)
    /\ alg.source # alg.sink
    /\ Len(alg.networks) >= 2
    /\ \E e \in EdgeIds(storage) :
        FlowGet(alg.flow, Endpoints(storage, e)[1], Endpoints(storage, e)[2]) < 0
    /\ \E e \in EdgeIds(storage) :
        /\ alg.capacity[e + 1] >= 1
        /\ FlowGet(alg.flow, Endpoints(storage, e)[1], Endpoints(storage, e)[2])
                = alg.capacity[e + 1]

-----------------------------------------------------------------------------
(* chromatic_polynomial against the count of proper colourings *)

MaxEvalColours == 4     \* colours up to which colourings are counted

\* no self-loop and at most one edge on every pair of nodes
SimpleGraph(st) == LoopFree(st) /\ OneEdgePerPair(st)

\* C30: for every simple undirected graph and every k >= 0, the polynomial
\* returned by chromatic_polynomial with the method RemoveEdges and with the
\* method AddEdges evaluates at k to the number of assignments of one of k
\* colours to each node in which adjacent nodes differ.
C30_CountsColourings ==
    (pc = "chromatic" /\ SimpleGraph(storage)) =>
        \A m \in {"RemoveEdges", "AddEdges"} :
            IsSome(alg[m]) =>
                \A k \in 0..MaxEvalColours :
                    PolyEval(Unwrap(alg[m]), k) = Cardinality(Colourings(storage, k))

\* both methods have been run on the cycle on five nodes, which has 30
\* proper colourings with 3 colours
W30_FiveCycleCounted ==
    /\ pc = "chromatic"
    /\ SimpleGraph(storage)
    /\ Order(storage) = 5
    /\ EdgeCount(FromGraph(storage)) = 5
    /\ IsSome(alg["RemoveEdges"]) /\ IsSome(alg["AddEdges"])
    /\ PolyEval(Unwrap(alg["AddEdges"]), 3) = 30
    /\ Cardinality(Colourings(storage, 3)) = 30

====
